---- MODULE Spec2Model ----
(***************************************************************************)
(* NEXUZY ARTICAL: the local record store (db/local_db.py), the remote     *)
(* document client (db/firebase_sync.py), the account flows                *)
(* (auth/login.py, main.py, dashboard/admin_dashboard.py) and the          *)
(* reconciliation handlers of the two dashboards, as a state machine.      *)
(*                                                                         *)
(* Spec         the handlers as the source wires them: a push run works on *)
(*              what get_pending_articles / get_articles_by_user return,   *)
(*              the dialogs build their Article with Article(...).         *)
(* SpecLive     Spec with the fairness of the Tk timer queue.              *)
(* SpecBody     the store operations and the bodies of the push run and of *)
(*              save_changes applied to Articles the caller holds.         *)
(* SpecOffline  the operations of LocalDatabase with no network at all.    *)
(* SpecUsers    the accounts table and the account flows.                  *)
(* SpecStartup, SpecEdit, SpecPeriodic, SpecMidRun, SpecDelete, SpecFrame  *)
(*              the startup import, the edit dialog, the push runs and the *)
(*              writes of LocalDatabase on stored rows.                    *)
(* SpecRemote, SpecFtp, SpecImages, SpecRoundTrip                          *)
(*              the remote document client, the FTP client and the image   *)
(*              cache, each operation called by itself.                    *)
(* SpecCreate, SpecSession, SpecShutdown                                   *)
(*              the creation dialog, logging in and out, closing.          *)
(***************************************************************************)
EXTENDS Integers, Sequences, FiniteSets, TLC

\* ------------------------------------------------------------------ bounds
MaxClock == 2        \* readings of datetime.now() per run (local writes, logins)

Ids == {"A1", "A2"}                  \* article ids ("Fides-XXXXXX")
UserIds == {"u1", "u2"}              \* the accounts that log in
AccountIds == {"u1", "u2", "u3"}     \* account ids (uuid4)
Names == {"david", "ann"}            \* usernames
Passwords == {"784577", "secret1"}
Roles == {"admin", "user"}
None == "None"                       \* Python None / SQL NULL
Absent == "<absent>"                 \* a field a remote document does not have
\* What a create or edit dialog holds when it is saved: the four fields, and
\* the image_path (None when no image was chosen).
Forms == {
    [vals |-> [article_name |-> "Widget", mould |-> "M1", size |-> "S",
               gender |-> "Male"],
     image_path |-> None],
    [vals |-> [article_name |-> "Widget2", mould |-> "M2", size |-> "L",
               gender |-> "Unisex"],
     image_path |-> "/nexuzy/img1.jpg"] }
\* u1 logs in as an administrator, u2 as a standard user.
RoleOf == [u \in UserIds |-> IF u = "u1" THEN "admin" ELSE "user"]

\* --------------------------------------------------------- program constants
SYNC_PENDING == 0
SYNC_SYNCED == 1

VARIABLES
    articles,     \* local table articles: id -> row (DOMAIN = the stored ids)
    fb_articles,  \* remote collection 'articles': id -> document
    users,        \* local table users: a set of rows
    fb_users,     \* remote collection 'users': id -> document
    initialized,  \* FirebaseSync.initialized
    net,          \* the network: "down", "flaky" (remote calls may raise), "up"
    attached,     \* LocalDatabase.firebase_sync is set
    clock,        \* datetime.now(), counted in the readings of it
    chains,       \* scheduled refresh_data callbacks: dashboard user -> count
    runs,         \* the number of refresh_data runs so far, modulo 2
    cache,        \* the image cache directory: file name -> state of the file
    ftp_connected,\* FTPUploader.connected
    last,         \* the last operation: name, inputs, result, remote calls
    current_user  \* NexuzyApp.current_user: the id of the logged-in user, or None

vars == <<articles, fb_articles, users, fb_users, initialized, net, attached,
          clock, chains, runs, cache, ftp_connected, last, current_user>>

\* ---------------------------------------------------------------- db/models.py
\* (A dataclass that had the field image_path as well.)
ArticleFieldsWithImage ==
    {"id", "article_name", "mould", "size", "gender", "created_by",
     "created_at", "updated_at", "sync_status", "image_path"}

\* The fields of the dataclass Article: the keyword arguments Article(...) accepts
\* and the attributes an Article object has.
ArticleFields ==
    {"id", "article_name", "mould", "size", "gender", "created_by",
     "created_at", "updated_at", "sync_status"}

\* Article(**kw): TypeError on a keyword that is no field.
ArticleAccepts(kw) == DOMAIN kw \subseteq ArticleFields

\* The object Article(**kw) builds (its attributes are its fields).
NewArticle(kw) == [f \in (DOMAIN kw) \cap ArticleFields |-> kw[f]]

\* Article.to_dict(): the fields of the dataclass, and no other attribute.
to_dict(a) ==
    [id |-> a.id, article_name |-> a.article_name, mould |-> a.mould,
     size |-> a.size, gender |-> a.gender, created_by |-> a.created_by,
     created_at |-> a.created_at, updated_at |-> a.updated_at,
     sync_status |-> a.sync_status]

\* ------------------------------------------------ db/local_db.py: articles
Row(vals, owner, created, updated, status, img) ==
    [article_name |-> vals.article_name, mould |-> vals.mould, size |-> vals.size,
     gender |-> vals.gender, created_by |-> owner, created_at |-> created,
     updated_at |-> updated, sync_status |-> status, image_path |-> img]

\* The keyword arguments the read operations pass to Article(...) for a row.
RowKwargs(db, id) ==
    [id |-> id, article_name |-> db[id].article_name, mould |-> db[id].mould,
     size |-> db[id].size, gender |-> db[id].gender,
     created_by |-> db[id].created_by, created_at |-> db[id].created_at,
     updated_at |-> db[id].updated_at, sync_status |-> db[id].sync_status,
     image_path |-> db[id].image_path]

\* ORDER BY created_at: the ids of S in ascending (asc) or descending order of
\* created_at.
OrderBy(db, S, asc) ==
    CHOOSE s \in [1..Cardinality(S) -> S] :
        /\ \A i, j \in 1..Cardinality(S) : i # j => s[i] # s[j]
        /\ \A i, j \in 1..Cardinality(S) :
              i < j => IF asc THEN db[s[i]].created_at <= db[s[j]].created_at
                              ELSE db[s[i]].created_at >= db[s[j]].created_at

\* The loop of the list operations: one Article(...) per row; the first
\* exception ends the operation in its except branch, which returns [].
Fetch(db, S, asc) ==
    IF \E i \in S : ~ArticleAccepts(RowKwargs(db, i))
    THEN << >>
    ELSE LET s == OrderBy(db, S, asc)
         IN  [k \in 1..Cardinality(S) |-> NewArticle(RowKwargs(db, s[k]))]

get_all_articles(db) == Fetch(db, DOMAIN db, FALSE)

PendingIds(db) == {i \in DOMAIN db : db[i].sync_status = SYNC_PENDING}

get_pending_articles(db) == Fetch(db, PendingIds(db), TRUE)

get_articles_by_user(db, uid) ==
    Fetch(db, {i \in DOMAIN db : db[i].created_by = uid}, FALSE)

\* get_article_by_id: the Article, or None (also from the except branch).
get_article_by_id(db, id) ==
    IF id \in DOMAIN db /\ ArticleAccepts(RowKwargs(db, id))
    THEN NewArticle(RowKwargs(db, id)) ELSE [id |-> None]

get_articles_count(db) == Cardinality(DOMAIN db)

get_pending_articles_count(db) == Cardinality(PendingIds(db))

\* INSERT INTO articles: IntegrityError on an id that is stored already.
InsertOk(db, id) == id \notin DOMAIN db
Insert(db, id, row) == IF InsertOk(db, id) THEN (id :> row) @@ db ELSE db

\* UPDATE articles SET ..., updated_at = ?, sync_status = SYNC_PENDING,
\* image_path = ? WHERE id = ?
UpdateRowKeepStatus(db, id, vals, img, t) ==
    IF id \in DOMAIN db
    THEN [db EXCEPT ![id] = Row(vals, @.created_by, @.created_at, t, @.sync_status, img)]
    ELSE db

UpdateRow(db, id, vals, img, t) ==
    IF id \in DOMAIN db
    THEN [db EXCEPT ![id] = Row(vals, @.created_by, @.created_at, t, SYNC_PENDING, img)]
    ELSE db

\* mark_article_synced: UPDATE articles SET sync_status = SYNC_SYNCED WHERE id = ?
mark_article_synced(db, id) ==
    IF id \in DOMAIN db THEN [db EXCEPT ![id].sync_status = SYNC_SYNCED] ELSE db

\* DELETE FROM articles WHERE id = ?
DeleteRowKept(db, id) == db

DeleteRow(db, id) == [i \in (DOMAIN db) \ {id} |-> db[i]]

\* --------------------------------------------------- db/local_db.py: users
\* utils/security.py: the hash of a password, and its verification.
hash_password(p) == "pbkdf2:sha256$" \o p
verify_password(p, h) == h = hash_password(p)

\* NULL in the column last_login (the other values are readings of the clock).
Never == -1

\* The row an INSERT writes at the time t: created_at is t, last_login NULL.
UserRow(id, name, ph, role, t) ==
    [id |-> id, username |-> name, password_hash |-> ph, role |-> role,
     created_at |-> t, last_login |-> Never]

NoUser == UserRow(None, None, None, None, 0)

\* SELECT * FROM users WHERE username = ? : the row, or None.
get_user_by_username(tbl, name) ==
    IF \E r \in tbl : r.username = name
    THEN CHOOSE r \in tbl : r.username = name ELSE NoUser

\* INSERT INTO users: id is the PRIMARY KEY, username is UNIQUE.
add_user_ok_pk_only(tbl, id, name) == \A r \in tbl : r.id # id

add_user_ok(tbl, id, name) == \A r \in tbl : r.id # id /\ r.username # name

add_user_tbl(tbl, id, name, ph, role, t) ==
    IF add_user_ok(tbl, id, name) THEN tbl \cup {UserRow(id, name, ph, role, t)} ELSE tbl

\* INSERT ... ON CONFLICT(id) DO UPDATE SET username, password_hash, role:
\* the row of the id is written; a username another row holds raises.
create_or_update_user_ok(tbl, id, name) ==
    \A r \in tbl : r.username = name => r.id = id

\* (INSERT OR REPLACE: the row of the id is written anew.)
create_or_update_user_replace(tbl, id, name, ph, role, t) ==
    IF create_or_update_user_ok(tbl, id, name)
    THEN {r \in tbl : r.id # id} \cup {UserRow(id, name, ph, role, t)}
    ELSE tbl

\* The three columns of DO UPDATE SET are written on a row of the id, the
\* other columns of it stay; without such a row the INSERT takes place.
create_or_update_user_tbl(tbl, id, name, ph, role, t) ==
    IF create_or_update_user_ok(tbl, id, name)
    THEN {r \in tbl : r.id # id} \cup
         (IF \E r \in tbl : r.id = id
          THEN {[r EXCEPT !.username = name, !.password_hash = ph, !.role = role] :
                   r \in {q \in tbl : q.id = id}}
          ELSE {UserRow(id, name, ph, role, t)})
    ELSE tbl

\* update_last_login: UPDATE users SET last_login = ? WHERE id = ?
update_last_login(tbl, id, t) ==
    {IF r.id = id THEN [r EXCEPT !.last_login = t] ELSE r : r \in tbl}

\* DELETE FROM users WHERE id = ?
delete_user_tbl(tbl, id) == {r \in tbl : r.id # id}

\* -------------------------------------------------------- db/firebase_sync.py
\* utils/network.py: NetworkChecker.is_connected()
online == net # "down"

\* is_connected(): initialized and the network reachable.
is_connected_initialized == initialized

is_connected == initialized /\ online

\* A remote call raises only while the network is flaky.
MayRaise == IF net = "flaky" THEN BOOLEAN ELSE {FALSE}
MayFail(S) == IF net = "flaky" THEN SUBSET S ELSE {{}}

\* The document sync_articles writes for one article dict (no image_path). The
\* two timestamps it also writes are left out of the documents of this model.
article_data(d) ==
    [article_name |-> d.article_name, mould |-> d.mould, size |-> d.size,
     gender |-> d.gender, created_by |-> d.created_by]

\* document(id).set(data, merge=True): the fields of data replace the stored
\* ones, every other stored field stays; a missing document is created.
SetMergeInsertOnly(docs, id, data) ==
    IF id \in DOMAIN docs THEN docs
    ELSE (id :> (data @@ [image_path |-> Absent])) @@ docs

SetMerge(docs, id, data) ==
    IF id \in DOMAIN docs
    THEN [docs EXCEPT ![id] = [f \in DOMAIN @ |-> IF f \in DOMAIN data THEN data[f] ELSE @[f]]]
    ELSE (id :> (data @@ [image_path |-> Absent])) @@ docs

\* document(id).update(fields): fails on a missing document.
UpdateDoc(docs, id, vals, img) ==
    [docs EXCEPT ![id] = [@ EXCEPT !.article_name = vals.article_name,
                                   !.mould = vals.mould, !.size = vals.size,
                                   !.gender = vals.gender, !.image_path = img]]

\* FirebaseSync.update_article(id, updates): True iff the update was written.
\* raises: the remote call raises (the store rejects it, the link drops).
fb_update_ok(docs, id, raises) == is_connected /\ ~raises /\ id \in DOMAIN docs
fb_update_article(docs, id, vals, img, raises) ==
    IF fb_update_ok(docs, id, raises) THEN UpdateDoc(docs, id, vals, img) ELSE docs

\* FirebaseSync.delete_article(id).
fb_delete_article(docs, id, raises) ==
    IF is_connected /\ ~raises THEN [i \in (DOMAIN docs) \ {id} |-> docs[i]] ELSE docs

\* FirebaseSync.sync_articles(dicts): every dict with sync_status 0 is written
\* in its own try block; failing is the set of ids whose write raises.
Tried(dicts) ==
    IF is_connected
    THEN {dicts[k].id : k \in {k \in 1..Len(dicts) : dicts[k].sync_status = 0}}
    ELSE {}

Written(dicts, failing) == Tried(dicts) \ failing

\* for article in articles: if article.get('sync_status') == 0: ... set(...)
\* The ids in the order the loop comes to them.
IsPendingDict(d) == d.sync_status = 0

TriedOrder(dicts) ==
    IF is_connected
    THEN [k \in 1..Len(SelectSeq(dicts, IsPendingDict)) |->
             SelectSeq(dicts, IsPendingDict)[k].id]
    ELSE << >>

RECURSIVE WriteAll(_, _, _, _)
WriteAll(docs, dicts, failing, k) ==
    IF k > Len(dicts) THEN docs
    ELSE WriteAll(IF dicts[k].id \in Written(dicts, failing)
                  THEN SetMerge(docs, dicts[k].id, article_data(dicts[k]))
                  ELSE docs,
                  dicts, failing, k + 1)

sync_articles_docs(docs, dicts, failing) == WriteAll(docs, dicts, failing, 1)

\* the return value: synced, the number of writes that did not raise
sync_articles_count(dicts, failing) ==
    Cardinality({k \in 1..Len(dicts) : dicts[k].id \in Written(dicts, failing)})

\* FirebaseSync.create_user(id, username, password, role): the document of the
\* id is set, with the hash of the password it is given.
UserDoc(name, ph, role) == [username |-> name, password_hash |-> ph, role |-> role]

fb_create_user_ok(raises) == is_connected /\ ~raises
fb_create_user(docs, id, name, password, role, raises) ==
    IF fb_create_user_ok(raises)
    THEN [i \in (DOMAIN docs) \cup {id} |->
             IF i = id THEN UserDoc(name, hash_password(password), role) ELSE docs[i]]
    ELSE docs

\* FirebaseSync.delete_user(id).
fb_delete_user(docs, id, raises) ==
    IF is_connected /\ ~raises THEN [i \in (DOMAIN docs) \ {id} |-> docs[i]] ELSE docs

\* ------------------------------------------------------------ the last event
\* op: the operation; id: the article or account id it was given (the dashboard
\* user, for a push run); arg: the username, for an account operation, the
\* branch taken, for a push run; ok: its result; tried / written: the ids a
\* remote write was attempted / succeeded for; marked: the ids handed to
\* mark_article_synced; deletes: the number of remote delete_article calls it
\* made (none, unless the operation is a delete); result: the local path an
\* image operation returned; calls: the remote calls it made that no other
\* field records (the Firestore calls of a FirebaseSync method called by
\* itself, authenticate_user for a login); count: the number a
\* batch_sync_articles call returned; order: the ids of the dicts a push run
\* handed to sync_articles that it writes, in the order of its loop; edited:
\* the ids another writer updated while the run was between its read of the
\* pending list and its calls of mark_article_synced; lost: an FTP operation
\* got a transport error on the session it used (calls then holds "connect"
\* when the operation called connect() first).
NoPath == [hash |-> None, ext |-> None]

Ev(op, id, arg, ok, tried, written, marked) ==
    [op |-> op, id |-> id, arg |-> arg, ok |-> ok, tried |-> tried,
     written |-> written, marked |-> marked, deletes |-> 0, result |-> NoPath,
     calls |-> {}, count |-> 0, order |-> << >>, edited |-> {},
     lost |-> FALSE]

\* The event of a delete that made n remote delete_article calls.
EvDelete(op, id, ok, n) ==
    [Ev(op, id, None, ok, {}, {}, {}) EXCEPT !.deletes = n]

IdsOf(list) == {list[k].id : k \in 1..Len(list)}

Init ==
    /\ articles = << >>
    /\ fb_articles = << >>
    /\ users = {}
    /\ fb_users = << >>
    /\ initialized = FALSE
    /\ net \in {"down", "up"}
    /\ attached = FALSE
    /\ clock = 0
    /\ chains = [u \in UserIds |-> 0]
    /\ runs = 0
    /\ cache = << >>
    /\ ftp_connected = FALSE
    /\ last = Ev("init", None, None, TRUE, {}, {}, {})
    /\ current_user = None

\* ------------------------------------------------------------- environment
NetChange ==
    /\ net' \in {"down", "flaky", "up"} \ {net}
    /\ UNCHANGED <<cache, ftp_connected, runs, articles, fb_articles, users, fb_users, initialized, attached,
                   clock, chains, last, current_user>>

\* FirebaseSync.initialize(): True with the client set up; False with nothing
\* changed (no firebase_admin, no firebase_config.json); False with
\* initialized = False (an exception).
initialize ==
    /\ \E r \in {"ok", "skip", "raise"} :
          initialized' = CASE r = "ok" -> TRUE
                           [] r = "skip" -> initialized
                           [] r = "raise" -> FALSE
    /\ UNCHANGED <<cache, ftp_connected, runs, articles, fb_articles, users, fb_users, net, attached, clock,
                   chains, last, current_user>>

\* LocalDatabase.set_firebase_sync, as NexuzyApp.initialize_app calls it.
set_firebase_sync ==
    /\ is_connected
    /\ attached' = TRUE
    /\ UNCHANGED <<cache, ftp_connected, runs, articles, fb_articles, users, fb_users, initialized, net, clock,
                   chains, last, current_user>>

\* NexuzyApp.initial_firebase_sync, which initialize_app runs after attaching
\* the sync handler: nothing when not connected; else it reads the local
\* counts and calls self.firebase.initial_sync_from_firebase(self.db).
\* FirebaseSync has no attribute of that name: the call raises AttributeError,
\* which the except branch logs.
\* (An import that writes every remote document as a synced row.)
import_remote(db, docs) ==
    [id \in DOMAIN db \cup DOMAIN docs |->
        IF id \in DOMAIN docs
        THEN Row(docs[id], docs[id].created_by, 0, 0, SYNC_SYNCED, None)
        ELSE db[id]]

\* The local table after the run: as it was.
initial_firebase_sync_db(db, docs) == db

\* id: "repeat" when the operation before it was this one too, else "first".
initial_firebase_sync ==
    /\ articles' = IF is_connected
                   THEN initial_firebase_sync_db(articles, fb_articles)
                   ELSE articles
    /\ last' = Ev("initial_firebase_sync",
                  IF last.op = "initial_firebase_sync" THEN "repeat" ELSE "first",
                  IF is_connected THEN "raised" ELSE "offline",
                  FALSE, {}, {}, {})
    /\ UNCHANGED <<cache, ftp_connected, runs, fb_articles, users, fb_users,
                   initialized, net, attached, clock, chains, current_user>>

\* ------------------------------------------------ LocalDatabase: the writes
\* create_article(id, name, mould, size, gender, created_by, image_path)
create_article(id, vals, owner, img) ==
    /\ clock < MaxClock
    /\ clock' = clock + 1
    /\ articles' = Insert(articles, id, Row(vals, owner, clock, clock, SYNC_PENDING, img))
    /\ last' = Ev("create_article", id, None, InsertOk(articles, id), {}, {}, {})
    /\ UNCHANGED <<cache, ftp_connected, runs, fb_articles, users, fb_users, initialized, net, attached, chains,
                   current_user>>

\* add_article(article): reads article.image_path (AttributeError when the
\* object has no such attribute) and stores SYNC_PENDING whatever
\* article.sync_status is.
add_article_ok(db, a) == "image_path" \in DOMAIN a /\ InsertOk(db, a.id)
add_article_db(db, a) ==
    IF add_article_ok(db, a)
    THEN Insert(db, a.id, Row(a, a.created_by, a.created_at, a.updated_at,
                              SYNC_PENDING, a.image_path))
    ELSE db

add_article(a) ==
    /\ clock < MaxClock
    /\ clock' = clock + 1
    /\ articles' = add_article_db(articles, a)
    /\ last' = Ev("add_article", a.id, None, add_article_ok(articles, a), {}, {}, {})
    /\ UNCHANGED <<cache, ftp_connected, runs, fb_articles, users, fb_users, initialized, net, attached, chains,
                   current_user>>

\* The objects a caller can pass to add_article: an Article, with or without
\* an image_path attribute set on it.
ArticleObjects ==
    UNION { { [id |-> id, article_name |-> f.vals.article_name,
               mould |-> f.vals.mould, size |-> f.vals.size,
               gender |-> f.vals.gender, created_by |-> o,
               created_at |-> clock, updated_at |-> clock, sync_status |-> st] @@ extra :
                 extra \in {<< >>, [image_path |-> f.image_path]} } :
            id \in Ids, f \in Forms, o \in UserIds,
            st \in {SYNC_PENDING, SYNC_SYNCED} }

\* update_article(id, name, mould, size, gender, image_path): the UPDATE, then
\* the remote update when the sync handler is attached and connected; returns
\* rowcount > 0.
update_article_docs(docs, id, vals, img, raises) ==
    IF attached THEN fb_update_article(docs, id, vals, img, raises) ELSE docs

update_article(id, vals, img) ==
    /\ clock < MaxClock
    /\ clock' = clock + 1
    /\ \E raises \in MayRaise :
          /\ articles' = UpdateRow(articles, id, vals, img, clock)
          /\ fb_articles' = update_article_docs(fb_articles, id, vals, img, raises)
          /\ last' = Ev("update_article", id, None, id \in DOMAIN articles,
                        IF attached /\ is_connected THEN {id} ELSE {},
                        IF attached /\ fb_update_ok(fb_articles, id, raises)
                        THEN {id} ELSE {},
                        {})
    /\ UNCHANGED <<cache, ftp_connected, runs, users, fb_users, initialized, net, attached, chains,
                   current_user>>

\* delete_article(id): the DELETE, then the remote delete when the sync handler
\* is attached and connected; returns rowcount > 0.
\* The number of remote delete calls LocalDatabase.delete_article makes:
delete_article_calls == IF attached /\ is_connected THEN 1 ELSE 0

delete_article_docs(docs, id, raises) ==
    IF attached THEN fb_delete_article(docs, id, raises) ELSE docs

delete_article(id) ==
    /\ clock < MaxClock
    /\ clock' = clock + 1
    /\ \E raises \in MayRaise :
          /\ articles' = DeleteRow(articles, id)
          /\ fb_articles' = delete_article_docs(fb_articles, id, raises)
          /\ last' = EvDelete("delete_article", id, id \in DOMAIN articles,
                              delete_article_calls)
    /\ UNCHANGED <<cache, ftp_connected, runs, users, fb_users, initialized, net, attached, chains,
                   current_user>>

\* add_user(user)
add_user(id, name, pw, role) ==
    /\ clock < MaxClock
    /\ clock' = clock + 1
    /\ users' = add_user_tbl(users, id, name, hash_password(pw), role, clock)
    /\ last' = Ev("add_user", id, name, add_user_ok(users, id, name), {}, {}, {})
    /\ UNCHANGED <<cache, ftp_connected, runs, articles, fb_articles, fb_users, initialized, net, attached, chains,
                   current_user>>

\* create_or_update_user(user_id, username, password_hash, role)
create_or_update_user(id, name, pw, role) ==
    /\ clock < MaxClock
    /\ clock' = clock + 1
    /\ users' = create_or_update_user_tbl(users, id, name, hash_password(pw), role,
                                                clock)
    /\ last' = Ev("create_or_update_user", id, name,
                  create_or_update_user_ok(users, id, name), {}, {}, {})
    /\ UNCHANGED <<cache, ftp_connected, runs, articles, fb_articles, fb_users, initialized, net, attached, chains,
                   current_user>>

\* delete_user(user_id): the DELETE, then the remote delete when the sync
\* handler is attached and connected; returns True.
delete_user(id) ==
    /\ clock < MaxClock
    /\ clock' = clock + 1
    /\ \E raises \in MayRaise :
          /\ users' = delete_user_tbl(users, id)
          /\ fb_users' = IF attached THEN fb_delete_user(fb_users, id, raises)
                                     ELSE fb_users
          /\ last' = Ev("delete_user", id, None, TRUE, {}, {}, {})
    /\ UNCHANGED <<cache, ftp_connected, runs, articles, fb_articles, initialized, net, attached, chains,
                   current_user>>

\* ------------------------------------------------------- the account flows
\* str(uuid.uuid4()): an id no account has
FreshIds == AccountIds \ ({r.id : r \in users} \cup DOMAIN fb_users)

\* save_user of AdminDashboard.add_user:
\*   if self.db.add_user(user):
\*       if self.firebase and self.firebase.is_connected():
\*           self.firebase.create_user(user.id, username, password, role)
save_user_creates_always(stored) == is_connected

save_user_creates(stored) == stored /\ is_connected

save_user(name, pw, role) ==
    /\ clock < MaxClock
    /\ clock' = clock + 1
    /\ \E id \in FreshIds, raises \in MayRaise :
         LET stored == add_user_ok(users, id, name)
             calls  == save_user_creates(stored)
         IN  /\ users' = add_user_tbl(users, id, name, hash_password(pw), role, clock)
             /\ fb_users' = IF calls
                            THEN fb_create_user(fb_users, id, name, pw, role, raises)
                            ELSE fb_users
             /\ last' = Ev("save_user", id, name, stored,
                           IF calls THEN {id} ELSE {},
                           IF calls /\ fb_create_user_ok(raises) THEN {id} ELSE {},
                           {})
    /\ UNCHANGED <<cache, ftp_connected, runs, articles, fb_articles, initialized, net, attached, chains,
                   current_user>>

\* The body shared by RegisterWindow.register and NexuzyApp.ensure_default_admin:
\*   existing = db.get_user_by_username(username); if existing: return
\*   db.create_or_update_user(uuid4, username, hash, role)      (result unused)
\*   if <remote>: firebase.create_user(uuid4, username, <password>, role)
NewAccount(op, name, pw, role, remote, remote_pw) ==
    IF get_user_by_username(users, name).id # None
    THEN /\ last' = Ev(op, None, name, FALSE, {}, {}, {})
         /\ UNCHANGED <<users, fb_users>>
    ELSE \E id \in FreshIds, raises \in MayRaise :
           /\ users' = create_or_update_user_tbl(users, id, name, hash_password(pw), role,
                                                clock)
           /\ fb_users' = IF remote
                          THEN fb_create_user(fb_users, id, name, remote_pw, role, raises)
                          ELSE fb_users
           /\ last' = Ev(op, id, name, create_or_update_user_ok(users, id, name),
                         IF remote THEN {id} ELSE {},
                         IF remote /\ fb_create_user_ok(raises) THEN {id} ELSE {},
                         {})

\* RegisterWindow.register: the remote call when the network is reachable.
register(name, pw, role) ==
    /\ clock < MaxClock
    /\ clock' = clock + 1
    /\ NewAccount("register", name, pw, role, online, pw)
    /\ UNCHANGED <<cache, ftp_connected, runs, articles, fb_articles, initialized, net, attached, chains,
                   current_user>>

\* NexuzyApp.ensure_default_admin: "david" / "784577" / "admin"; the remote
\* call, when connected, is given the hash of the password.
ensure_default_admin ==
    /\ clock < MaxClock
    /\ clock' = clock + 1
    /\ NewAccount("ensure_default_admin", "david", "784577", "admin",
                  online /\ is_connected, hash_password("784577"))
    /\ UNCHANGED <<cache, ftp_connected, runs, articles, fb_articles, initialized, net, attached, chains,
                   current_user>>

\* LoginWindow.login: the local row first (update_user_last_login on
\* success); else, with the network reachable,
\* authenticate_user, whose account is written to the local table
\* (create_or_update_user, result unused) before on_success is called.
\* first: the first document of the remote query username == ?.
authenticate_user(docs, first, pw, raises) ==
    IF is_connected /\ ~raises /\ first # None
       /\ verify_password(pw, docs[first].password_hash)
    THEN first ELSE None

\* The event of a login that called self.firebase.authenticate_user.
EvAuth(ev) == [ev EXCEPT !.calls = {"authenticate_user"}]

FirstDocs(docs, name) ==
    IF \E i \in DOMAIN docs : docs[i].username = name
    THEN {i \in DOMAIN docs : docs[i].username = name} ELSE {None}

login(name, pw) ==
    /\ clock < MaxClock
    /\ clock' = clock + 1
    /\ LET user == get_user_by_username(users, name)
       IN  IF user.id # None /\ verify_password(pw, user.password_hash)
           THEN /\ last' = Ev("login", user.id, name, TRUE, {}, {}, {})
                /\ users' = update_last_login(users, user.id, clock)
           ELSE IF ~online
           THEN /\ last' = Ev("login", None, name, FALSE, {}, {}, {})
                /\ UNCHANGED users
           ELSE \E first \in FirstDocs(fb_users, name), raises \in MayRaise :
                  LET uid == authenticate_user(fb_users, first, pw, raises)
                  IN  IF uid = None
                      THEN /\ last' = EvAuth(Ev("login", None, name, FALSE, {}, {}, {}))
                           /\ UNCHANGED users
                      ELSE /\ users' = create_or_update_user_tbl(
                                           users, uid, name, hash_password(pw),
                                           fb_users[uid].role, clock)
                           /\ last' = EvAuth(Ev("login", uid, name,
                                         create_or_update_user_ok(users, uid, name),
                                         {}, {}, {}))
    /\ UNCHANGED <<cache, ftp_connected, runs, articles, fb_articles, fb_users, initialized, net, attached, chains,
                   current_user>>

\* ------------------------------------------------- the dashboards: push runs
\* The pending list of a run. AdminDashboard: get_pending_articles().
\* UserDashboard: [a for a in get_articles_by_user(user id) if a.sync_status == 0].
IsPending(a) == a.sync_status = 0

PendingOf(db, uid) ==
    IF RoleOf[uid] = "admin" THEN get_pending_articles(db)
    ELSE SelectSeq(get_articles_by_user(db, uid), IsPending)

\* for article in pending[:synced]: mark_article_synced(article.id)
MarkPrefixShort(db, pending, n) ==
    IF n = 0 THEN db ELSE mark_article_synced(db, pending[1].id)

RECURSIVE MarkPrefix(_, _, _)
MarkPrefix(db, pending, n) ==
    IF n = 0 THEN db
    ELSE mark_article_synced(MarkPrefix(db, pending, n - 1), pending[n].id)

PrefixIds(pending, n) == {pending[k].id : k \in 1..n}

\* The body of a run on a non-empty pending list:
\*   articles_dict = [a.to_dict() for a in pending]
\*   synced = firebase.sync_articles(articles_dict)
\*   for article in pending[:synced]: db.mark_article_synced(article.id)
Push(op, uid, pending, failing) ==
    LET dicts == [k \in 1..Len(pending) |-> to_dict(pending[k])]
        n     == sync_articles_count(dicts, failing)
    IN  /\ fb_articles' = sync_articles_docs(fb_articles, dicts, failing)
        /\ articles' = MarkPrefix(articles, pending, n)
        /\ last' = [Ev(op, uid, "pushed", TRUE, Tried(dicts),
                        Written(dicts, failing), PrefixIds(pending, n))
                     EXCEPT !.order = TriedOrder(dicts)]

\* A run that writes nothing; branch: "offline" (not connected), "empty" (no
\* pending Article in its list), "raised" (an exception).
NoPush(op, uid, branch, ok) ==
    /\ UNCHANGED <<articles, fb_articles>>
    /\ last' = Ev(op, uid, branch, ok, {}, {}, {})

\* sync_data ('Sync Now'): a warning when not connected; else the run.
SyncBody(op, uid, pending) ==
    IF ~is_connected THEN NoPush(op, uid, "offline", FALSE)
    ELSE IF pending = << >> THEN NoPush(op, uid, "empty", TRUE)
    ELSE \E failing \in MayFail(IdsOf(pending)) : Push(op, uid, pending, failing)

\* A dashboard of the user has been constructed.
Dashboard(uid) == chains[uid] > 0

sync_data(uid) ==
    /\ Dashboard(uid)
    /\ SyncBody("sync_data", uid, PendingOf(articles, uid))
    /\ UNCHANGED <<cache, ftp_connected, runs, users, fb_users, initialized, net, attached, clock, chains,
                   current_user>>

\* refresh_data: the same run inside try/except, every exception absorbed; then
\* root.after(30000, self.refresh_data), outside the try block. The number of
\* callbacks a run schedules:
RescheduledInTry(exc) == IF exc THEN 0 ELSE 1

Rescheduled(exc) == 1

RefreshBody(uid, exc) ==
    IF exc THEN NoPush("refresh_data", uid, "raised", FALSE)
    ELSE IF ~is_connected THEN NoPush("refresh_data", uid, "offline", TRUE)
    ELSE LET pending == PendingOf(articles, uid)
         IN  IF pending = << >> THEN NoPush("refresh_data", uid, "empty", TRUE)
             ELSE \E failing \in MayFail(IdsOf(pending)) :
                      Push("refresh_data", uid, pending, failing)

\* NexuzyApp.on_login_success: current_user is set, login_time =
\* datetime.now(); the dashboard of the role is constructed; its __init__ runs
\* refresh_data once, which starts the chain of timer callbacks.
Login(uid) ==
    /\ clock < MaxClock
    /\ clock' = clock + 1
    /\ current_user' = uid
    /\ \E exc \in BOOLEAN :
          /\ RefreshBody(uid, exc)
          /\ chains' = [chains EXCEPT ![uid] = @ + Rescheduled(exc)]
    /\ runs' = 1 - runs
    /\ UNCHANGED <<cache, ftp_connected, users, fb_users, initialized, net, attached>>

\* on_login_success as the login window calls it: the window is shown at start
\* and by on_logout, when no user is logged in.
on_login_success(uid) ==
    /\ current_user = None
    /\ Login(uid)

\* NexuzyApp.on_logout (the logout button of a dashboard, after the
\* confirmation): current_user = None, every child widget of the root window
\* is destroyed, the login window is shown. It calls no after_cancel, and the
\* callbacks are registered on the root window, which it keeps: the scheduled
\* refresh_data callbacks stay.
on_logout ==
    /\ current_user # None
    /\ current_user' = None
    /\ chains' = chains
    /\ last' = Ev("on_logout", current_user, None, TRUE, {}, {}, {})
    /\ UNCHANGED <<cache, ftp_connected, runs, articles, fb_articles, users,
                   fb_users, initialized, net, attached, clock>>

\* A scheduled refresh_data callback runs (the timer that held it is consumed).
TimerFire(uid) ==
    /\ chains[uid] > 0
    /\ \E exc \in BOOLEAN :
          /\ RefreshBody(uid, exc)
          /\ chains' = [chains EXCEPT ![uid] = @ - 1 + Rescheduled(exc)]
    /\ runs' = 1 - runs
    /\ UNCHANGED <<cache, ftp_connected, users, fb_users, initialized, net, attached,
                   clock, current_user>>

\* -------------------------------------------- the dashboards: create, edit
\* save_article of the create dialog (both dashboards): the id comes from
\* generate_article_id (an id get_article_by_id finds no Article for);
\*   article = Article(id=..., ..., sync_status=0, image_path=...)
\*   if db.add_article(article):
\*       if firebase.is_connected():
\*           synced = firebase.sync_articles([article.to_dict()])
\*           if synced: db.mark_article_synced(article.id)
\* Any exception (the TypeError of Article(...) too) ends it in a message box.
save_article(uid, id, vals, img) ==
    /\ Dashboard(uid)
    /\ clock < MaxClock
    /\ clock' = clock + 1
    /\ get_article_by_id(articles, id).id = None
    /\ LET kw == [id |-> id, article_name |-> vals.article_name, mould |-> vals.mould,
                  size |-> vals.size, gender |-> vals.gender,
                  created_by |-> uid, created_at |-> clock, updated_at |-> clock,
                  sync_status |-> 0, image_path |-> img]
           a  == NewArticle(kw)
           db == add_article_db(articles, a)
       IN  IF ~ArticleAccepts(kw) \/ ~add_article_ok(articles, a)
           THEN /\ UNCHANGED <<articles, fb_articles>>
                /\ last' = Ev("save_article", id, None, FALSE, {}, {}, {})
           ELSE IF ~is_connected
                THEN /\ articles' = db
                     /\ fb_articles' = fb_articles
                     /\ last' = Ev("save_article", id, None, TRUE, {}, {}, {})
                ELSE \E failing \in MayFail({id}) :
                       LET dicts == << to_dict(a) >>
                           n == sync_articles_count(dicts, failing)
                       IN /\ fb_articles' = sync_articles_docs(fb_articles, dicts, failing)
                          /\ articles' = IF n # 0 THEN mark_article_synced(db, id) ELSE db
                          /\ last' = Ev("save_article", id, None, TRUE, Tried(dicts),
                                        Written(dicts, failing),
                                        IF n # 0 THEN {id} ELSE {})
    /\ UNCHANGED <<cache, ftp_connected, runs, users, fb_users, initialized, net, attached, chains,
                   current_user>>

\* save_changes of AdminDashboard.edit_selected_article:
\*   db.update_article(article_id, ...)
\*   if firebase.is_connected():
\*       firebase.update_article(article_id, updates)
\*       db.mark_article_synced(article_id)
SaveChanges(id, vals, img) ==
    \E r1 \in MayRaise, r2 \in MayRaise :
       LET db1   == UpdateRow(articles, id, vals, img, clock)
           docs1 == update_article_docs(fb_articles, id, vals, img, r1)
           docs2 == IF is_connected
                    THEN fb_update_article(docs1, id, vals, img, r2) ELSE docs1
           ok1   == attached /\ fb_update_ok(fb_articles, id, r1)
           ok2   == fb_update_ok(docs1, id, r2)
       IN  /\ articles' = IF is_connected THEN mark_article_synced(db1, id) ELSE db1
           /\ fb_articles' = docs2
           /\ last' = Ev("save_changes", id, None, TRUE,
                         IF is_connected THEN {id} ELSE {},
                         IF ok1 \/ ok2 THEN {id} ELSE {},
                         IF is_connected /\ id \in DOMAIN articles THEN {id} ELSE {})

\* edit_selected_article, for the selected article id: 'Article not found' when
\* get_article_by_id returns None; else the dialog, whose save button runs
\* save_changes.
edit_selected_article(id, vals, img) ==
    /\ Dashboard("u1")
    /\ IF get_article_by_id(articles, id).id = None
       THEN /\ UNCHANGED <<articles, fb_articles, clock>>
            /\ last' = Ev("edit_selected_article", id, None, FALSE, {}, {}, {})
       ELSE /\ clock < MaxClock
            /\ clock' = clock + 1
            /\ SaveChanges(id, vals, img)
    /\ UNCHANGED <<cache, ftp_connected, runs, users, fb_users, initialized, net, attached, chains,
                   current_user>>

\* save_changes on a dialog that is open for the article id.
save_changes(id, vals, img) ==
    /\ clock < MaxClock
    /\ clock' = clock + 1
    /\ SaveChanges(id, vals, img)
    /\ UNCHANGED <<cache, ftp_connected, runs, users, fb_users, initialized, net, attached, chains,
                   current_user>>

\* The body of AdminDashboard.delete_selected_article for a selected id, after
\* the confirmation:
\*   self.db.delete_article(article_id)
\*   if self.firebase and self.firebase.is_connected():
\*       self.firebase.delete_article(article_id)
\* The number of remote delete calls the handler makes on top of those of
\* LocalDatabase.delete_article:
delete_selected_calls == IF is_connected THEN 1 ELSE 0

DeleteSelected(id) ==
    \E r1 \in MayRaise, r2 \in MayRaise :
       LET docs1 == delete_article_docs(fb_articles, id, r1)
       IN  /\ articles' = DeleteRow(articles, id)
           /\ fb_articles' = IF is_connected THEN fb_delete_article(docs1, id, r2)
                                              ELSE docs1
           /\ last' = EvDelete("delete_selected_article", id, TRUE,
                               delete_article_calls + delete_selected_calls)

\* delete_selected_article: 'Please select an article first' unless a row of
\* the tree show_articles filled from get_all_articles is selected.
delete_selected_article(id) ==
    /\ Dashboard("u1")
    /\ IF id \notin IdsOf(get_all_articles(articles))
       THEN /\ UNCHANGED <<articles, fb_articles, clock>>
            /\ last' = EvDelete("delete_selected_article", None, FALSE, 0)
       ELSE /\ clock < MaxClock
            /\ clock' = clock + 1
            /\ DeleteSelected(id)
    /\ UNCHANGED <<cache, ftp_connected, runs, users, fb_users, initialized, net, attached, chains,
                   current_user>>

\* The handler body on a row that is selected in the tree.
delete_selected(id) ==
    /\ id \in DOMAIN articles
    /\ clock < MaxClock
    /\ clock' = clock + 1
    /\ DeleteSelected(id)
    /\ UNCHANGED <<cache, ftp_connected, runs, users, fb_users, initialized, net, attached, chains,
                   current_user>>

\* The image field of the edit dialog when it is saved: image_path_var starts
\* as article.image_path or "", and browse_image sets it to the file the
\* administrator picked on the local disk; save_changes stores
\* image_path_var.get() or None as it is.
LocalFiles == {"C:/pics/shoe.jpg"}

\* The paths FTPUploader.upload_image has returned.
UploadedPaths == {"/nexuzy/img1.jpg"}

EditImages(db, id) ==
    LocalFiles \cup (IF id \in DOMAIN db THEN {db[id].image_path} ELSE {None})

\* save_changes on a dialog that is open for the article id, with the image
\* field as the dialog holds it.
save_changes_dialog(id, vals) ==
    /\ id \in DOMAIN articles
    /\ clock < MaxClock
    /\ clock' = clock + 1
    /\ \E img \in EditImages(articles, id) : SaveChanges(id, vals, img)
    /\ UNCHANGED <<cache, ftp_connected, runs, users, fb_users, initialized, net,
                   attached, chains, current_user>>

\* The Article a caller holds for a stored row: the row's values in the fields
\* the dataclass has.
HeldArticle(db, id) ==
    [f \in ArticleFields \cap DOMAIN RowKwargs(db, id) |-> RowKwargs(db, id)[f]]

\* The pending list of a dashboard with every row held as an Article:
\* all pending rows oldest first (admin), the user's pending rows newest
\* first (user).
HeldPending(db, uid) ==
    LET S == IF RoleOf[uid] = "admin" THEN PendingIds(db)
             ELSE {i \in PendingIds(db) : db[i].created_by = uid}
        s == OrderBy(db, S, RoleOf[uid] = "admin")
    IN  [k \in 1..Cardinality(S) |-> HeldArticle(db, s[k])]

\* The body of sync_data on such a list.
push_held(uid) ==
    /\ SyncBody("sync_data", uid, HeldPending(articles, uid))
    /\ UNCHANGED <<cache, ftp_connected, runs, users, fb_users, initialized, net, attached, clock, chains,
                   current_user>>

\* ------------------------------------- utils/image_sync.py, ftp_uploader.py
\* A remote path: abs, whether it starts with '/'; stem and ext, what
\* os.path.splitext makes of it. The last one is the empty string.
RemotePaths ==
    { [abs |-> TRUE, stem |-> "/nexuzy/img1", ext |-> ".jpg"],
      [abs |-> TRUE, stem |-> "/nexuzy/img2", ext |-> ""],
      [abs |-> FALSE, stem |-> "img3", ext |-> ".png"],
      [abs |-> FALSE, stem |-> "", ext |-> ""] }

\* The files the FTP server holds.
Blobs == { [abs |-> TRUE, stem |-> "/nexuzy/img1", ext |-> ".jpg"] }

\* The path as the string the program holds.
path_str(P) == P.stem \o P.ext

\* if not ftp_path or not ftp_path.startswith('/'): return None
valid_path(P) == path_str(P) # "" /\ P.abs

\* _get_cache_filename: the first 12 hex digits of the md5 of the path (taken
\* as one value per path), and the extension of the path or '.jpg'.
get_cache_filename(P) ==
    [hash |-> "md5(" \o path_str(P) \o ")",
     ext |-> IF P.ext = "" THEN ".jpg" ELSE P.ext]

\* get_cached_path: the cache path when os.path.exists(cache_path), else None.
cached_path_always(c, P) == get_cache_filename(P)

cached_path(c, P) ==
    IF valid_path(P) /\ get_cache_filename(P) \in DOMAIN c
    THEN get_cache_filename(P) ELSE NoPath

\* FTPUploader.download_image(ftp_path, local_path), by how far it gets:
\*   "noconn"   connect() or cwd(directory) fails: False, no file is opened;
\*   "partial"  open(local_path, 'wb') has created or truncated the file and
\*              RETR raises (no such file on the server, the link drops):
\*              False, the file stays as it is;
\*   "ok"       the transfer completes: True.
ftp_outcomes(P) ==
    CASE net = "down" -> {"noconn"}
      [] net = "up" -> IF P \in Blobs THEN {"ok"} ELSE {"partial"}
      [] net = "flaky" -> {"noconn", "partial"} \cup
                          (IF P \in Blobs THEN {"ok"} ELSE {})

ftp_download_image(c, name, o) ==
    CASE o = "noconn" -> c
      [] o = "partial" -> (name :> "partial") @@ c
      [] o = "ok" -> (name :> "complete") @@ c

ftp_connected_after(o) == IF o = "noconn" THEN ftp_connected ELSE TRUE

\* The event of an image operation: the path and force it was given, the local
\* path it returned, whether it called FTPUploader.download_image, and
\* whether that call returned True.
EvImage(op, P, force, res, called, done) ==
    [Ev(op, path_str(P), IF force THEN "force" ELSE "no_force", res # NoPath,
        IF called THEN {path_str(P)} ELSE {}, IF done THEN {path_str(P)} ELSE {},
        {})
     EXCEPT !.result = res]

\* ImageSyncManager.download_image: whether it goes to the FTP client.
download_image_calls_on_miss(c, P, force) ==
    valid_path(P) /\ get_cache_filename(P) \notin DOMAIN c

download_image_calls_always(c, P, force) == valid_path(P)

download_image_calls(c, P, force) ==
    valid_path(P) /\ (get_cache_filename(P) \notin DOMAIN c \/ force)

\* What it returns after a call of the FTP client with outcome o.
download_image_result(P, o) ==
    IF o = "ok" THEN get_cache_filename(P) ELSE NoPath

download_image(P, force) ==
    /\ IF download_image_calls(cache, P, force)
       THEN \E o \in ftp_outcomes(P) :
              /\ cache' = ftp_download_image(cache, get_cache_filename(P), o)
              /\ ftp_connected' = ftp_connected_after(o)
              /\ last' = EvImage("download_image", P, force,
                                 download_image_result(P, o), TRUE, o = "ok")
       ELSE /\ UNCHANGED <<cache, ftp_connected>>
            /\ last' = EvImage("download_image", P, force, cached_path(cache, P),
                               FALSE, FALSE)
    /\ UNCHANGED <<runs, articles, fb_articles, users, fb_users, initialized, net,
                   attached, clock, chains, current_user>>

get_cached_path(P) ==
    /\ last' = EvImage("get_cached_path", P, FALSE, cached_path(cache, P),
                       FALSE, FALSE)
    /\ UNCHANGED <<cache, ftp_connected, runs, articles, fb_articles, users, fb_users,
                   initialized, net, attached, clock, chains, current_user>>

\* clear_cache: every file of the cache directory is removed.
clear_cache ==
    /\ cache' = << >>
    /\ last' = Ev("clear_cache", None, None, TRUE, {}, {}, {})
    /\ UNCHANGED <<ftp_connected, runs, articles, fb_articles, users, fb_users,
                   initialized, net, attached, clock, chains, current_user>>

\* ------------------------------------ db/firebase_sync.py, method by method
\* The article dicts and the lists of them a caller hands to sync_articles.
ArticleDict(id, f, st) ==
    [id |-> id, article_name |-> f.vals.article_name, mould |-> f.vals.mould,
     size |-> f.vals.size, gender |-> f.vals.gender, created_by |-> "u1",
     created_at |-> 0, updated_at |-> 0, sync_status |-> st]

ArticleDicts ==
    UNION { { ArticleDict(id, f, st) :
                f \in {g \in Forms : (id = "A1") <=> (g.image_path = None)},
                st \in {SYNC_PENDING, SYNC_SYNCED} } : id \in Ids }

\* The accounts a caller hands to create_user.
AccountInputs ==
    { [id |-> "u1", username |-> "david", password |-> "784577", role |-> "admin"],
      [id |-> "u2", username |-> "ann", password |-> "secret1", role |-> "user"] }

DictLists ==
    {<< >>} \cup {<<d>> : d \in ArticleDicts}
            \cup {<<d1, d2>> : d1 \in {d \in ArticleDicts : d.id = "A1"},
                               d2 \in {d \in ArticleDicts : d.id = "A2"}}

\* The Firestore calls a method makes: none when its first statement
\*   if not self.initialized or not self.network.is_connected(): return ...
\* returns.
Firestore(call) == IF is_connected THEN {call} ELSE {}

EvRemote(op, id, ok, tried, written, call) ==
    [Ev(op, id, None, ok, tried, written, {}) EXCEPT !.calls = Firestore(call)]

RemoteUnchanged ==
    UNCHANGED <<cache, ftp_connected, runs, articles, users, initialized, net,
                attached, clock, chains, current_user>>

firebase_sync_articles(dicts) ==
    /\ \E failing \in MayFail(IdsOf(dicts)) :
          /\ fb_articles' = sync_articles_docs(fb_articles, dicts, failing)
          /\ last' = EvRemote("sync_articles", None,
                              sync_articles_count(dicts, failing) > 0,
                              Tried(dicts), Written(dicts, failing), "set")
    /\ UNCHANGED fb_users
    /\ RemoteUnchanged

firebase_update_article(id, vals, img) ==
    /\ \E raises \in MayRaise :
          /\ fb_articles' = fb_update_article(fb_articles, id, vals, img, raises)
          /\ last' = EvRemote("update_article", id,
                              fb_update_ok(fb_articles, id, raises), {}, {},
                              "update")
    /\ UNCHANGED fb_users
    /\ RemoteUnchanged

firebase_delete_article(id) ==
    /\ \E raises \in MayRaise :
          /\ fb_articles' = fb_delete_article(fb_articles, id, raises)
          /\ last' = EvRemote("delete_article", id, is_connected /\ ~raises,
                              {}, {}, "delete")
    /\ UNCHANGED fb_users
    /\ RemoteUnchanged

\* batch_sync_articles(articles, batch_size): the list is cut into slices
\* articles[i:i + batch_size]; for each slice the pending dicts are put into a
\* write batch (synced += 1 for each), then batch.commit(). An exception ends
\* the loop in the except branch, which returns synced.
\* fail: the slice whose commit raises, 0 when none does.
BatchSizes == {1, 2}

BatchOf(k, batch_size) == ((k - 1) \div batch_size) + 1

BatchCount(dicts, batch_size) == (Len(dicts) + batch_size - 1) \div batch_size

BatchFails(dicts, batch_size) ==
    IF is_connected /\ net = "flaky" THEN 0..BatchCount(dicts, batch_size) ELSE {0}

\* the dicts put into a batch before the loop ends
batch_set(dicts, batch_size, fail) ==
    IF is_connected
    THEN {k \in 1..Len(dicts) : /\ dicts[k].sync_status = 0
                                /\ (fail = 0 \/ BatchOf(k, batch_size) <= fail)}
    ELSE {}

\* the dicts of the batches that were committed
batch_committed(dicts, batch_size, fail) ==
    {k \in batch_set(dicts, batch_size, fail) :
        fail = 0 \/ BatchOf(k, batch_size) < fail}

\* the return value
batch_sync_articles_count(dicts, batch_size, fail) ==
    Cardinality(batch_set(dicts, batch_size, fail))

batch_sync_articles_docs(docs, dicts, batch_size, fail) ==
    sync_articles_docs(docs, dicts,
        IdsOf(dicts) \ {dicts[k].id : k \in batch_committed(dicts, batch_size, fail)})

firebase_batch_sync_articles(dicts, batch_size) ==
    /\ \E fail \in BatchFails(dicts, batch_size) :
          /\ fb_articles' = batch_sync_articles_docs(fb_articles, dicts, batch_size, fail)
          /\ last' = [EvRemote("batch_sync_articles", None,
                               batch_sync_articles_count(dicts, batch_size, fail) > 0,
                               {dicts[k].id : k \in batch_set(dicts, batch_size, fail)},
                               {dicts[k].id : k \in batch_committed(dicts, batch_size, fail)},
                               "batch")
                      EXCEPT !.count = batch_sync_articles_count(dicts, batch_size, fail)]
    /\ UNCHANGED fb_users
    /\ RemoteUnchanged

\* The user dicts a caller hands to sync_users: with the key password_hash, or
\* without it.
UserDicts ==
    { [id |-> "u1", username |-> "david", role |-> "admin"],
      [id |-> "u1", username |-> "david", role |-> "admin",
       password_hash |-> hash_password("784577")] }

UserDictLists == {<< >>} \cup {<<u>> : u \in UserDicts}

\* sync_users: user_data is username, role, created_at, last_login and id, and
\*   if 'password_hash' in user: user_data['password_hash'] = user['password_hash']
user_data(u) ==
    [f \in {"username", "role"} \cup (DOMAIN u \cap {"password_hash"}) |-> u[f]]

\* document(id).set(user_data, merge=True) on the collection 'users'.
UserSetMerge(docs, id, data) ==
    [i \in (DOMAIN docs) \cup {id} |->
        IF i # id THEN docs[i]
        ELSE [f \in {"username", "password_hash", "role"} |->
                 IF f \in DOMAIN data THEN data[f]
                 ELSE IF id \in DOMAIN docs THEN docs[id][f] ELSE Absent]]

RECURSIVE sync_users_docs(_, _, _, _)
sync_users_docs(docs, udicts, failing, k) ==
    IF ~is_connected \/ k > Len(udicts) THEN docs
    ELSE sync_users_docs(IF udicts[k].id \in failing THEN docs
                         ELSE UserSetMerge(docs, udicts[k].id, user_data(udicts[k])),
                         udicts, failing, k + 1)

sync_users_written(udicts, failing) ==
    IF is_connected THEN IdsOf(udicts) \ failing ELSE {}

firebase_sync_users(udicts) ==
    /\ \E failing \in MayFail(IdsOf(udicts)) :
          /\ fb_users' = sync_users_docs(fb_users, udicts, failing, 1)
          /\ last' = EvRemote("sync_users", None,
                              sync_users_written(udicts, failing) # {},
                              IF is_connected THEN IdsOf(udicts) ELSE {},
                              sync_users_written(udicts, failing), "set")
    /\ UNCHANGED fb_articles
    /\ RemoteUnchanged

\* The updates dicts a caller hands to update_user.
UserUpdates ==
    { [role |-> "user"],
      [role |-> "user", password_hash |-> hash_password("secret1")],
      [password_hash |-> hash_password("secret1")] }

\* update_user: safe_updates = {k: v for k, v in updates.items() if k !=
\* 'password_hash'}; document(id).update(safe_updates) when it is not empty,
\* which fails on a missing document.
safe_updates(updates) == [f \in (DOMAIN updates) \ {"password_hash"} |-> updates[f]]

update_user_ok(docs, id, updates, raises) ==
    /\ is_connected /\ ~raises
    /\ DOMAIN safe_updates(updates) # {}
    /\ id \in DOMAIN docs

update_user_docs(docs, id, updates, raises) ==
    IF update_user_ok(docs, id, updates, raises)
    THEN UserSetMerge(docs, id, safe_updates(updates))
    ELSE docs

firebase_update_user(id, updates) ==
    /\ \E raises \in MayRaise :
          /\ fb_users' = update_user_docs(fb_users, id, updates, raises)
          /\ last' = IF DOMAIN safe_updates(updates) # {}
                     THEN EvRemote("update_user", id,
                                   update_user_ok(fb_users, id, updates, raises),
                                   {}, {}, "update")
                     ELSE Ev("update_user", id, None, FALSE, {}, {}, {})
    /\ UNCHANGED fb_articles
    /\ RemoteUnchanged

\* get_articles_from_firebase / get_users_from_firebase: the documents of the
\* collection, [] when not connected or when the read raises.
get_from_firebase(docs, raises) ==
    IF is_connected /\ ~raises THEN DOMAIN docs ELSE {}

firebase_get_articles ==
    /\ \E raises \in MayRaise :
          last' = EvRemote("get_articles_from_firebase", None,
                           get_from_firebase(fb_articles, raises) # {}, {}, {},
                           "stream")
    /\ UNCHANGED <<fb_articles, fb_users>>
    /\ RemoteUnchanged

firebase_get_users ==
    /\ \E raises \in MayRaise :
          last' = EvRemote("get_users_from_firebase", None,
                           get_from_firebase(fb_users, raises) # {}, {}, {},
                           "stream")
    /\ UNCHANGED <<fb_articles, fb_users>>
    /\ RemoteUnchanged

firebase_create_user(id, name, pw, role) ==
    /\ \E raises \in MayRaise :
          /\ fb_users' = fb_create_user(fb_users, id, name, pw, role, raises)
          /\ last' = [EvRemote("create_user", id, fb_create_user_ok(raises),
                               {}, {}, "set") EXCEPT !.arg = name]
    /\ UNCHANGED fb_articles
    /\ RemoteUnchanged

firebase_delete_user(id) ==
    /\ \E raises \in MayRaise :
          /\ fb_users' = fb_delete_user(fb_users, id, raises)
          /\ last' = EvRemote("delete_user", id, is_connected /\ ~raises,
                              {}, {}, "delete")
    /\ UNCHANGED fb_articles
    /\ RemoteUnchanged

firebase_authenticate_user(name, pw) ==
    /\ \E first \in FirstDocs(fb_users, name), raises \in MayRaise :
          last' = [EvRemote("authenticate_user",
                            authenticate_user(fb_users, first, pw, raises),
                            authenticate_user(fb_users, first, pw, raises) # None,
                            {}, {}, "stream") EXCEPT !.arg = name]
    /\ UNCHANGED <<fb_articles, fb_users>>
    /\ RemoteUnchanged

\* ------------------------------------------------- utils/ftp_uploader.py
\* The exceptions a call of ftplib or of the file system raises, by class:
\* ftplib.error_perm (5xx reply: login rejected, no such directory or file),
\* ftplib.error_temp (4xx reply), OSError (socket errors, timeouts), EOFError
\* (the server closed the connection), TypeError (a path that is None).
ExcClasses == {"error_perm", "error_temp", "OSError", "EOFError", "TypeError"}

\* The classes the except clauses of the module name.
error_perm == {"error_perm"}
all_errors == {"error_perm", "error_temp", "OSError", "EOFError"}
Exception == ExcClasses

\* What a block of code comes to: it returns value, or it raises.
Ret(v) == [raises |-> None, value |-> v]
Raise(e) == [raises |-> e, value |-> None]

\* try: <block r>  except <caught>: return v
Except(r, caught, v) == IF r.raises \in caught THEN Ret(v) ELSE r

\* The configuration and the server as one call finds them: creds, whether
\* host, username and password are all set; then what each call of ftplib
\* does: login (FTP(host) and login), cwd (cwd(self.remote_dir) in connect),
\* mkd, opcwd (the cwd of the operation itself), xfer (STOR, RETR or DELE).
FtpWorlds ==
    [creds : BOOLEAN,
     login : {"ok", "error_perm", "OSError"},
     cwd : {"ok", "error_perm", "OSError"},
     mkd : {"ok", "error_perm"},
     opcwd : {"ok", "error_perm", "OSError"},
     xfer : {"ok", "error_perm", "OSError"}]

\* The worlds the network allows: no socket error when it is up, nothing but
\* socket errors when it is down.
Worlds ==
    CASE net = "up" ->
           {w \in FtpWorlds : "OSError" \notin {w.login, w.cwd, w.opcwd, w.xfer}}
      [] net = "down" ->
           {w \in FtpWorlds : {w.login, w.cwd, w.opcwd, w.xfer} = {"OSError"}}
      [] net = "flaky" -> FtpWorlds

\* FTPUploader.connect, the body of its try block.
connect_body(w) ==
    IF ~w.creds THEN Ret("False")
    ELSE IF w.login # "ok" THEN Raise(w.login)
    ELSE IF w.cwd = "ok" THEN Ret("True")
    ELSE IF w.cwd \in error_perm
         THEN Except(IF w.mkd = "ok" THEN Ret("True") ELSE Raise(w.mkd),
                     Exception, "False")
         ELSE Raise(w.cwd)

\* connect with the first of its except clauses only.
connect_perm_only(w) == Except(connect_body(w), error_perm, "False")

\* connect: except ftplib.error_perm / ftplib.all_errors / Exception, each
\* returns False.
connect(w) ==
    Except(Except(Except(connect_body(w), error_perm, "False"),
                  all_errors, "False"),
           Exception, "False")

\* self.connected after connect: True on success, False from the three except
\* clauses, as it was from the two early returns.
connected_after_connect(w, was) ==
    IF connect(w).value = "True" THEN TRUE
    ELSE IF connect_body(w).raises # None THEN FALSE
    ELSE was

\* if not self.connected: if not self.connect(): return <neg>
\* "go" when the operation goes on.
ensure_connected(w, was, neg) ==
    IF was THEN Ret("go")
    ELSE IF connect(w).raises # None THEN connect(w)
    ELSE IF connect(w).value = "True" THEN Ret("go") ELSE Ret(neg)

connected_after(w, was) ==
    IF was THEN was ELSE connected_after_connect(w, was)

\* The configured base directory and public URL (ftp_config.json).
remote_dir == "/nexuzy"
base_url == "https://yourdomain.com/articles/images"

\* The files a dialog hands to upload_image: the path, its suffix
\* (Path(local_path).suffix), whether the file exists.
LocalSources ==
    { [path |-> "C:/pics/shoe.jpg", suffix |-> ".jpg", exists |-> TRUE],
      [path |-> "C:/pics/boot.PNG", suffix |-> ".PNG", exists |-> TRUE],
      [path |-> "C:/pics/gone.jpg", suffix |-> ".jpg", exists |-> FALSE] }

\* The remote_filename argument: None, or a name of the caller.
RemoteNames == { [stem |-> None, suffix |-> None],
                 [stem |-> "custom", suffix |-> ".jpg"] }

\* str.lower() on a suffix.
lower(x) == CASE x = ".PNG" -> ".png" [] OTHER -> x

\* f"article_{timestamp}_{random_str}{file_ext}", the timestamp and the six
\* random characters taken as one value.
generated_stem == "article_20260121_123456_ab12cd"

generated_filename_no_ext(src) == [stem |-> generated_stem, suffix |-> ""]

generated_filename(src) ==
    [stem |-> generated_stem, suffix |-> lower(src.suffix)]

remote_filename(src, name) ==
    IF name.stem = None THEN generated_filename(src) ELSE name

\* f"{self.remote_dir}/{remote_filename}"
ftp_path(src, name) ==
    remote_dir \o "/" \o remote_filename(src, name).stem
               \o remote_filename(src, name).suffix

\* FTPUploader.upload_image, the body of its try block: the value is the
\* returned path, or None.
upload_image_body(src, name, w, was) ==
    IF ~src.exists THEN Ret(None)
    ELSE IF ensure_connected(w, was, None).value # "go"
         THEN ensure_connected(w, was, None)
    ELSE IF w.opcwd # "ok" THEN Ret(None)
    ELSE IF w.xfer # "ok" THEN Raise(w.xfer)
    ELSE Ret(ftp_path(src, name))

upload_image_result(src, name, w, was) ==
    Except(Except(upload_image_body(src, name, w, was), error_perm, None),
           Exception, None)

\* FTPUploader.download_image(ftp_path, local_path), the body of its try
\* block, and how far it gets ("noconn", "partial", "ok" as above).
download_image_body(w, was) ==
    IF ensure_connected(w, was, "False").value # "go"
    THEN ensure_connected(w, was, "False")
    ELSE IF w.opcwd # "ok" THEN Ret("False")
    ELSE IF w.xfer # "ok" THEN Raise(w.xfer)
    ELSE Ret("True")

download_image_reach(w, was) ==
    IF ensure_connected(w, was, "False").value # "go" \/ w.opcwd # "ok"
    THEN "noconn"
    ELSE IF w.xfer # "ok" THEN "partial" ELSE "ok"

ftp_download_image_result(w, was) ==
    Except(Except(download_image_body(w, was), error_perm, "False"),
           Exception, "False")

\* FTPUploader.delete_image: cwd and delete are inside the one try block.
delete_image_body(w, was) ==
    IF ensure_connected(w, was, "False").value # "go"
    THEN ensure_connected(w, was, "False")
    ELSE IF w.opcwd # "ok" THEN Raise(w.opcwd)
    ELSE IF w.xfer # "ok" THEN Raise(w.xfer)
    ELSE Ret("True")

delete_image_result(w, was) ==
    Except(delete_image_body(w, was), Exception, "False")

\* The event of an FTP operation: its argument, and in arg what came back to
\* the caller, a returned value or "raised".
EvFtp(op, id, r) ==
    Ev(op, id, IF r.raises # None THEN "raised" ELSE r.value,
       r.raises = None /\ r.value \notin {"False", None}, {}, {}, {})

\* The errors of the transport: every class of ftplib.all_errors but the 5xx
\* reply (socket error, timeout, connection closed by the server, 4xx reply).
TransportErrors == all_errors \ error_perm

\* The operation got as far as using the session (cwd, then STOR, RETR or
\* DELE) and one of these calls raised a transport error.
transport_failed(w, was) ==
    /\ ensure_connected(w, was, None).value = "go"
    /\ \/ w.opcwd \in TransportErrors
       \/ w.opcwd = "ok" /\ w.xfer \in TransportErrors

\* if not self.connected: self.connect()
EvSession(ev, w, was, reached) ==
    [ev EXCEPT !.calls = IF reached /\ ~was THEN {"connect"} ELSE {},
               !.lost = reached /\ transport_failed(w, was)]

FtpUnchanged ==
    UNCHANGED <<runs, articles, fb_articles, users, fb_users, initialized, net,
                attached, clock, chains, current_user>>

ftp_connect ==
    /\ \E w \in Worlds :
          /\ last' = EvFtp("connect", None, connect(w))
          /\ ftp_connected' = connected_after_connect(w, ftp_connected)
    /\ UNCHANGED cache
    /\ FtpUnchanged

\* disconnect: quit(), or close() when quit raises; both in bare excepts.
ftp_disconnect ==
    /\ ftp_connected' = FALSE
    /\ last' = Ev("disconnect", None, None, TRUE, {}, {}, {})
    /\ UNCHANGED cache
    /\ FtpUnchanged

upload_image(src, name) ==
    /\ \E w \in Worlds :
          /\ last' = EvSession(EvFtp("upload_image", src.path,
                                 upload_image_result(src, name, w, ftp_connected)),
                                 w, ftp_connected, src.exists)
          /\ ftp_connected' = IF src.exists
                              THEN connected_after(w, ftp_connected)
                              ELSE ftp_connected
    /\ UNCHANGED cache
    /\ FtpUnchanged

ftp_download(P) ==
    /\ \E w \in Worlds :
          /\ last' = EvSession(EvFtp("ftp_download_image", path_str(P),
                                 ftp_download_image_result(w, ftp_connected)),
                                 w, ftp_connected, TRUE)
          /\ cache' = ftp_download_image(cache, get_cache_filename(P),
                                         download_image_reach(w, ftp_connected))
          /\ ftp_connected' = connected_after(w, ftp_connected)
    /\ FtpUnchanged

delete_image(P) ==
    /\ \E w \in Worlds :
          /\ last' = EvSession(EvFtp("delete_image", path_str(P),
                                 delete_image_result(w, ftp_connected)),
                                 w, ftp_connected, TRUE)
          /\ ftp_connected' = connected_after(w, ftp_connected)
    /\ UNCHANGED cache
    /\ FtpUnchanged

\* The values of remote_dir a configuration can hold (ftp_config.json:
\* remote_dir or ftp_remote_dir, taken as it is written): the directory, and
\* whether it starts with '/'. The second is a path below the login directory.
RemoteDirs ==
    { [dir |-> remote_dir, abs |-> TRUE],
      [dir |-> "public_html/articles/images", abs |-> FALSE] }

\* f"{self.remote_dir}/{remote_filename}" under the configuration d, as a
\* remote path (abs, stem and ext as in RemotePaths).
upload_path(d, src, name) ==
    [abs |-> d.abs,
     stem |-> d.dir \o "/" \o remote_filename(src, name).stem,
     ext |-> remote_filename(src, name).suffix]

\* An upload that succeeds under the configuration d, then
\* ImageSyncManager.download_image of the path it returned, with the server
\* reachable and the file still there: the path check of lines 99-101, the
\* cache check, then FTPUploader.download_image, which changes to the
\* directory of the path (wherever earlier calls left the session) and
\* retrieves the file.
upload_then_download(d, src, name) ==
    /\ net = "up"
    /\ \E w \in Worlds :
          /\ upload_image_result(src, name, w, ftp_connected).value # None
          /\ LET P == upload_path(d, src, name)
             IN  IF download_image_calls(cache, P, FALSE)
                 THEN /\ cache' = ftp_download_image(cache, get_cache_filename(P), "ok")
                      /\ last' = EvImage("round_trip", P, FALSE,
                                         download_image_result(P, "ok"), TRUE, TRUE)
                 ELSE /\ cache' = cache
                      /\ last' = EvImage("round_trip", P, FALSE,
                                         cached_path(cache, P), FALSE, FALSE)
    /\ ftp_connected' = TRUE
    /\ FtpUnchanged

\* ------------------------------- user_dashboard.py: create_article dialog
\* self.selected_image_path: None, or the file chosen with select_image.
NoSource == [path |-> None, suffix |-> None, exists |-> FALSE]

\* save_article of UserDashboard.create_article:
\*   ftp_path = None
\*   if self.selected_image_path:
\*       ftp_path = self.ftp.upload_image(self.selected_image_path)
\*       if not ftp_path:
\*           result = messagebox.askyesno(... "save article WITHOUT image?")
\*           if not result: return
\*           else: ftp_path = None
\*   article = Article(id=..., ..., sync_status=0, image_path=ftp_path)
\*   if self.db.add_article(article): <push as in save_article above>
\* arg of the event: "no_image", "uploaded", "cancelled" (upload failed, the
\* user answered no), "upload_failed" (upload failed, the user answered yes).
user_save_article(uid, id, vals, sel, yes) ==
    /\ Dashboard(uid) /\ RoleOf[uid] = "user"
    /\ clock < MaxClock
    /\ clock' = clock + 1
    /\ get_article_by_id(articles, id).id = None
    /\ \E w \in Worlds :
         LET selected == sel.path # None
             up == IF selected
                   THEN upload_image_result(sel, [stem |-> None, suffix |-> None],
                                            w, ftp_connected)
                   ELSE Ret(None)
             failed == selected /\ up.value = None
             branch == IF ~selected THEN "no_image"
                       ELSE IF ~failed THEN "uploaded"
                       ELSE IF yes THEN "upload_failed" ELSE "cancelled"
             kw == [id |-> id, article_name |-> vals.article_name,
                    mould |-> vals.mould, size |-> vals.size,
                    gender |-> vals.gender, created_by |-> uid,
                    created_at |-> clock, updated_at |-> clock,
                    sync_status |-> 0, image_path |-> up.value]
             a  == NewArticle(kw)
             db == add_article_db(articles, a)
         IN  /\ ftp_connected' = IF selected /\ sel.exists
                                 THEN connected_after(w, ftp_connected)
                                 ELSE ftp_connected
             /\ IF branch = "cancelled" \/ ~ArticleAccepts(kw)
                   \/ ~add_article_ok(articles, a)
                THEN /\ UNCHANGED <<articles, fb_articles>>
                     /\ last' = Ev("save_article", id, branch, FALSE, {}, {}, {})
                ELSE IF ~is_connected
                THEN /\ articles' = db
                     /\ fb_articles' = fb_articles
                     /\ last' = Ev("save_article", id, branch, TRUE, {}, {}, {})
                ELSE \E failing \in MayFail({id}) :
                       LET dicts == << to_dict(a) >>
                           n == sync_articles_count(dicts, failing)
                       IN /\ fb_articles' = sync_articles_docs(fb_articles, dicts, failing)
                          /\ articles' = IF n # 0 THEN mark_article_synced(db, id)
                                                  ELSE db
                          /\ last' = Ev("save_article", id, branch, TRUE,
                                        Tried(dicts), Written(dicts, failing),
                                        IF n # 0 THEN {id} ELSE {})
    /\ UNCHANGED <<cache, runs, users, fb_users, initialized, net, attached, chains, current_user>>

\* --------------------------------------------------- main.py: on_closing
\* NexuzyApp.on_closing: when the user confirms, self.db.close() in a try
\* block and self.root.destroy(), which ends the main loop and the process;
\* nothing when the user cancels. The calls it makes are in calls.
on_closing_calls == {"db.close", "root.destroy"}

on_closing(confirmed) ==
    /\ last' = IF confirmed
               THEN [Ev("on_closing", None, "confirmed", TRUE, {}, {}, {})
                     EXCEPT !.calls = on_closing_calls]
               ELSE Ev("on_closing", None, "cancelled", FALSE, {}, {}, {})
    /\ UNCHANGED <<cache, ftp_connected, runs, articles, fb_articles, users,
                   fb_users, initialized, net, attached, clock, chains, current_user>>

\* The process has not exited.
Running == ~(last.op = "on_closing" /\ last.ok)

\* The body of refresh_data on a list whose rows are held as Articles; the
\* exception, when one is raised, is absorbed by its except branch.
refresh_held(uid) ==
    /\ \E exc \in BOOLEAN :
          IF exc THEN NoPush("refresh_data", uid, "raised", FALSE)
          ELSE IF ~is_connected THEN NoPush("refresh_data", uid, "offline", TRUE)
          ELSE LET pending == HeldPending(articles, uid)
               IN  IF pending = << >> THEN NoPush("refresh_data", uid, "empty", TRUE)
                   ELSE \E failing \in MayFail(IdsOf(pending)) :
                            Push("refresh_data", uid, pending, failing)
    /\ UNCHANGED <<cache, ftp_connected, runs, users, fb_users, initialized, net,
                   attached, clock, chains, current_user>>

\* A run of refresh_data with a local edit in the middle of it. The run is
\* three statements,
\*   pending = self.db.get_pending_articles()       (the read)
\*   synced = self.firebase.sync_articles(dicts)    (the remote writes)
\*   for article in pending[:synced]: mark_article_synced(article.id)
\* and holds no lock and compares no version between them. The Tk main loop
\* runs one callback at a time, so the writer in the middle is another
\* connection to the same database file (a second instance of the
\* application; nothing in main.py prevents one): its
\* LocalDatabase.update_article(id, ...) commits after the read and before the
\* marks. The run then writes the dicts it read and marks their rows.
refresh_data_edited(uid, id, vals, img) ==
    /\ is_connected
    /\ clock < MaxClock
    /\ clock' = clock + 1
    /\ LET pending == HeldPending(articles, uid)
           dicts   == [k \in 1..Len(pending) |-> to_dict(pending[k])]
       IN  /\ id \in IdsOf(pending)
           /\ \E raises \in MayRaise, failing \in MayFail(IdsOf(pending)) :
                LET db1   == UpdateRow(articles, id, vals, img, clock)
                    docs1 == update_article_docs(fb_articles, id, vals, img, raises)
                    n     == sync_articles_count(dicts, failing)
                IN  /\ fb_articles' = sync_articles_docs(docs1, dicts, failing)
                    /\ articles' = MarkPrefix(db1, pending, n)
                    /\ last' = [Ev("refresh_data", uid, "pushed", TRUE, Tried(dicts),
                                    Written(dicts, failing), PrefixIds(pending, n))
                                 EXCEPT !.order = TriedOrder(dicts), !.edited = {id}]
    /\ UNCHANGED <<cache, ftp_connected, runs, users, fb_users, initialized, net,
                   attached, chains, current_user>>

\* LocalDatabase.mark_article_synced(id), called by itself: returns True.
local_mark_article_synced(id) ==
    /\ articles' = mark_article_synced(articles, id)
    /\ last' = Ev("mark_article_synced", id, None, TRUE, {}, {}, {})
    /\ UNCHANGED <<cache, ftp_connected, runs, fb_articles, users, fb_users,
                   initialized, net, attached, clock, chains, current_user>>

\* ------------------------------------------------------------ specifications
StoreWrite ==
    \/ \E id \in Ids, f \in Forms, o \in UserIds :
          create_article(id, f.vals, o, f.image_path)
    \/ \E a \in ArticleObjects : add_article(a)
    \/ \E id \in Ids, f \in Forms : update_article(id, f.vals, f.image_path)
    \/ \E id \in Ids : delete_article(id)

AccountWrite ==
    \/ \E id \in AccountIds, n \in Names, pw \in Passwords, r \in Roles :
          add_user(id, n, pw, r)
    \/ \E id \in AccountIds, n \in Names, pw \in Passwords, r \in Roles :
          create_or_update_user(id, n, pw, r)
    \/ \E id \in AccountIds : delete_user(id)

AccountFlow ==
    \/ \E n \in Names, pw \in Passwords, r \in Roles : save_user(n, pw, r)
    \/ \E n \in Names, pw \in Passwords, r \in Roles : register(n, pw, r)
    \/ ensure_default_admin
    \/ \E n \in Names, pw \in Passwords : login(n, pw)

Setup == initialize \/ set_firebase_sync

Handlers ==
    \/ \E u \in UserIds, id \in Ids, f \in Forms :
          save_article(u, id, f.vals, f.image_path)
    \/ \E id \in Ids, f \in Forms : edit_selected_article(id, f.vals, f.image_path)
    \/ \E id \in Ids : delete_selected_article(id)
    \/ \E u \in UserIds : sync_data(u)
    \/ \E u \in UserIds : Login(u)
    \/ \E u \in UserIds : TimerFire(u)

Bodies ==
    \/ \E id \in Ids, f \in Forms : save_changes(id, f.vals, f.image_path)
    \/ \E u \in UserIds : push_held(u)
    \/ \E id \in Ids : delete_selected(id)

Next == NetChange \/ Setup \/ StoreWrite \/ Handlers

Spec == Init /\ [][Next]_vars

\* The Tk main loop runs every scheduled callback.
SpecLive == Spec /\ \A u \in UserIds : WF_vars(TimerFire(u))

NextBody == NetChange \/ Setup \/ StoreWrite \/ Bodies

SpecBody == Init /\ [][NextBody]_vars

\* No network for the whole run, the remote client never initialized.
InitOffline == Init /\ net = "down"

NextOffline == StoreWrite \/ AccountWrite

SpecOffline == InitOffline /\ [][NextOffline]_vars

\* The remote collection 'users' as another device may have left it.
RemoteAccounts ==
    { << >>,
      "u3" :> UserDoc("david", hash_password("secret1"), "user") }

InitUsers ==
    /\ articles = << >>
    /\ fb_articles = << >>
    /\ users = {}
    /\ fb_users \in RemoteAccounts
    /\ initialized = FALSE
    /\ net \in {"down", "up"}
    /\ attached = FALSE
    /\ clock = 0
    /\ chains = [u \in UserIds |-> 0]
    /\ runs = 0
    /\ cache = << >>
    /\ ftp_connected = FALSE
    /\ last = Ev("init", None, None, TRUE, {}, {}, {})
    /\ current_user = None

NextUsers == NetChange \/ Setup \/ AccountWrite \/ AccountFlow

SpecUsers == InitUsers /\ [][NextUsers]_vars

\* The methods of FirebaseSync, each called by itself.
RemoteOps ==
    \/ \E dicts \in DictLists : firebase_sync_articles(dicts)
    \/ \E dicts \in DictLists, bs \in BatchSizes :
          firebase_batch_sync_articles(dicts, bs)
    \/ \E id \in Ids, f \in {g \in Forms : g.image_path # None} :
          firebase_update_article(id, f.vals, f.image_path)
    \/ \E id \in Ids : firebase_delete_article(id)
    \/ firebase_get_articles
    \/ firebase_get_users
    \/ \E a \in AccountInputs :
          firebase_create_user(a.id, a.username, a.password, a.role)
    \/ \E a \in AccountInputs : firebase_delete_user(a.id)
    \/ \E udicts \in UserDictLists : firebase_sync_users(udicts)
    \/ \E u \in UserUpdates : firebase_update_user("u1", u)
    \/ \E n \in Names, pw \in Passwords : firebase_authenticate_user(n, pw)

NextRemote == NetChange \/ initialize \/ RemoteOps

SpecRemote == Init /\ [][NextRemote]_vars

\* The FTP client, on the paths that upload_image has returned.
FtpPaths == {P \in RemotePaths : P.abs}

FtpOps ==
    \/ ftp_connect
    \/ ftp_disconnect
    \/ \E src \in LocalSources, name \in RemoteNames : upload_image(src, name)
    \/ \E P \in FtpPaths : ftp_download(P)
    \/ \E P \in FtpPaths : delete_image(P)

NextFtp == NetChange \/ FtpOps

SpecFtp == Init /\ [][NextFtp]_vars

\* The creation dialog of the user dashboard.
NextCreate ==
    \/ NetChange
    \/ Setup
    \/ \E u \in UserIds : Login(u)
    \/ \E u \in UserIds, id \in Ids, f \in Forms,
          sel \in LocalSources \cup {NoSource}, yes \in BOOLEAN :
            user_save_article(u, id, f.vals, sel, yes)

SpecCreate == Init /\ [][NextCreate]_vars

\* The application until it is closed: the remote client, the FTP client, the
\* main window.
NextShutdown ==
    \/ Running /\ NetChange
    \/ Running /\ initialize
    \/ Running /\ FtpOps
    \/ \E confirmed \in BOOLEAN : Running /\ on_closing(confirmed)

SpecShutdown == Init /\ [][NextShutdown]_vars

\* Application start against a remote store other devices have filled.
RemoteStores ==
    { << >>,
      "A1" :> [article_name |-> "Widget", mould |-> "M1", size |-> "S",
               gender |-> "Male", created_by |-> "u2", image_path |-> Absent],
      ("A1" :> [article_name |-> "Widget", mould |-> "M1", size |-> "S",
                gender |-> "Male", created_by |-> "u2", image_path |-> Absent])
      @@ ("A2" :> [article_name |-> "Widget2", mould |-> "M2", size |-> "L",
                   gender |-> "Unisex", created_by |-> "u1",
                   image_path |-> "/nexuzy/img1.jpg"]) }

InitStartup ==
    /\ articles = << >>
    /\ fb_articles \in RemoteStores
    /\ users = {}
    /\ fb_users = << >>
    /\ initialized = FALSE
    /\ net \in {"down", "up"}
    /\ attached = FALSE
    /\ clock = 0
    /\ chains = [u \in UserIds |-> 0]
    /\ runs = 0
    /\ cache = << >>
    /\ ftp_connected = FALSE
    /\ last = Ev("init", None, None, TRUE, {}, {}, {})
    /\ current_user = None

NextStartup == NetChange \/ Setup \/ initial_firebase_sync \/ StoreWrite

SpecStartup == InitStartup /\ [][NextStartup]_vars

\* Rows stored through LocalDatabase.create_article.
StoreCreate ==
    \E id \in Ids, f \in Forms, o \in UserIds :
        create_article(id, f.vals, o, f.image_path)

\* The edit dialog of the admin dashboard on stored rows.
NextEdit ==
    \/ NetChange
    \/ Setup
    \/ StoreCreate
    \/ \E id \in Ids, f \in Forms : save_changes_dialog(id, f.vals)

SpecEdit == Init /\ [][NextEdit]_vars

\* The periodic run on stored rows.
NextPeriodic ==
    \/ NetChange
    \/ Setup
    \/ StoreCreate
    \/ \E u \in UserIds : refresh_held(u)

SpecPeriodic == Init /\ [][NextPeriodic]_vars

\* The periodic run on stored rows, with and without an edit in its middle.
NextMidRun ==
    \/ NetChange
    \/ Setup
    \/ StoreCreate
    \/ \E u \in UserIds : refresh_held(u)
    \/ \E u \in UserIds, id \in Ids, f \in Forms :
          refresh_data_edited(u, id, f.vals, f.image_path)

SpecMidRun == Init /\ [][NextMidRun]_vars

\* Logging in and out, and the timer callbacks of the dashboards.
NextSession ==
    \/ NetChange
    \/ Setup
    \/ StoreCreate
    \/ \E u \in UserIds : on_login_success(u)
    \/ on_logout
    \/ \E u \in UserIds : TimerFire(u)

SpecSession == Init /\ [][NextSession]_vars

\* Rows that are stored, pushed and deleted, and the reconciliation steps
\* after the delete: the push runs and the startup import of a following start.
NextDelete ==
    \/ NetChange
    \/ Setup
    \/ StoreCreate
    \/ \E id \in Ids : delete_article(id)
    \/ \E id \in Ids : delete_selected(id)
    \/ \E u \in UserIds : push_held(u)
    \/ \E u \in UserIds : refresh_held(u)
    \/ initial_firebase_sync

SpecDelete == Init /\ [][NextDelete]_vars

\* Uploads followed by the download of the returned path, among other
\* downloads.
NextRoundTrip ==
    \/ NetChange
    \/ \E P \in RemotePaths, force \in BOOLEAN : download_image(P, force)
    \/ clear_cache
    \/ \E d \in RemoteDirs, src \in LocalSources, name \in RemoteNames :
          upload_then_download(d, src, name)

SpecRoundTrip == Init /\ [][NextRoundTrip]_vars

\* The writes of LocalDatabase on stored rows, with no network. The users
\* table is empty or as an earlier run of the application left it: the row of
\* an account that was created and has logged in since.
StoredAccounts ==
    { {},
      {[UserRow("u1", "david", hash_password("784577"), "admin", 0)
           EXCEPT !.last_login = 0]} }

InitFrame ==
    /\ articles = << >>
    /\ fb_articles = << >>
    /\ users \in StoredAccounts
    /\ fb_users = << >>
    /\ initialized = FALSE
    /\ net = "down"
    /\ attached = FALSE
    /\ clock = 0
    /\ chains = [u \in UserIds |-> 0]
    /\ runs = 0
    /\ cache = << >>
    /\ ftp_connected = FALSE
    /\ last = Ev("init", None, None, TRUE, {}, {}, {})
    /\ current_user = None

NextFrame ==
    \/ StoreCreate
    \/ \E id \in Ids, f \in Forms : update_article(id, f.vals, f.image_path)
    \/ \E id \in Ids : local_mark_article_synced(id)
    \/ \E id \in AccountIds, n \in Names, pw \in Passwords, r \in Roles :
          create_or_update_user(id, n, pw, r)
    \/ \E n \in Names, pw \in Passwords : login(n, pw)

SpecFrame == InitFrame /\ [][NextFrame]_vars

\* The image cache and the FTP client.
ImageOps ==
    \/ \E P \in RemotePaths, force \in BOOLEAN : download_image(P, force)
    \/ \E P \in RemotePaths : get_cached_path(P)
    \/ clear_cache

NextImages == NetChange \/ ImageOps

SpecImages == Init /\ [][NextImages]_vars

\* ------------------------------------------------------------------ claims
PushOps == {"sync_data", "refresh_data"}

DeleteOps == {"delete_article", "delete_selected_article"}

AccountPuts ==
    {"add_user", "create_or_update_user", "save_user", "register",
     "ensure_default_admin", "login"}

\* The username is held by a row of another id.
Held(tbl, name, id) == \E r \in tbl : r.username = name /\ r.id # id

Synced(id) == id \in DOMAIN articles /\ articles[id].sync_status = SYNC_SYNCED

\* The image_path a remote document carries (None when it has no such field).
DocImage(d) == IF d.image_path = Absent THEN None ELSE d.image_path

\* C1: an Item goes from pending to synced only after a remote write of that
\* same Item has succeeded: every id the last operation handed to
\* mark_article_synced had its remote write succeed in that operation.
C1_MarkedOnlyAfterWrite == last.marked \subseteq last.written

\* C2: whenever a local Item is synced, the remote document of its id exists
\* and carries the Item's local name, mould, size, gender, owner and image_path.
C2_SyncedMirrorsRemote ==
    \A id \in DOMAIN articles :
        articles[id].sync_status = SYNC_SYNCED =>
            /\ id \in DOMAIN fb_articles
            /\ fb_articles[id].article_name = articles[id].article_name
            /\ fb_articles[id].mould = articles[id].mould
            /\ fb_articles[id].size = articles[id].size
            /\ fb_articles[id].gender = articles[id].gender
            /\ fb_articles[id].created_by = articles[id].created_by
            /\ DocImage(fb_articles[id]) = articles[id].image_path

\* C3: within one push run an Item of the list is marked synced if and only if
\* its own remote upsert succeeded in that run.
C3_MarkedIffWritten == last.op \in PushOps => last.marked = last.written

\* C4: a successful update_article leaves the Item pending with updated_at the
\* time of the edit, not earlier than its previous value; an Item stored by
\* add_article / create_article is pending whatever sync_status was passed.
C4_EditResetsPending ==
    [][ /\ (clock' # clock /\ last'.op = "update_article" /\ last'.ok) =>
              /\ articles'[last'.id].sync_status = SYNC_PENDING
              /\ articles'[last'.id].updated_at = clock
              /\ articles'[last'.id].updated_at >= articles[last'.id].updated_at
        /\ (clock' # clock /\ last'.op \in {"add_article", "create_article"}
              /\ last'.ok) =>
              articles'[last'.id].sync_status = SYNC_PENDING ]_vars

\* C4 witness: update_article has succeeded on an Item that had been pushed
\* (its remote document exists), and the Item is pending with a later
\* updated_at.
C4_Witness ==
    /\ last.op = "update_article" /\ last.ok
    /\ last.id \in DOMAIN fb_articles
    /\ articles[last.id].sync_status = SYNC_PENDING
    /\ articles[last.id].updated_at > articles[last.id].created_at

\* C5: with no network for the whole run the read operations of LocalDatabase
\* return every stored row, every stored Item is pending, and nothing is
\* written to the remote store.
C5_OfflineLocalFirst ==
    /\ Len(get_all_articles(articles)) = get_articles_count(articles)
    /\ Len(get_pending_articles(articles)) = get_pending_articles_count(articles)
    /\ \A id \in DOMAIN articles : get_article_by_id(articles, id).id = id
    /\ PendingIds(articles) = DOMAIN articles
    /\ fb_articles = << >>
    /\ fb_users = << >>

\* C6: no two rows of the local users table have the same username, and no two
\* have the same id.
C6_UniqueAccounts ==
    \A r1, r2 \in users : (r1.id = r2.id \/ r1.username = r2.username) => r1 = r2

\* C6 witness: add_user was refused for a username a row of another id holds.
C6_Witness ==
    /\ last.op = "add_user" /\ ~last.ok
    /\ Held(users, last.arg, last.id)

\* C7: an account operation or flow given a username that a row of another id
\* holds fails, leaves the users table as it was, and calls no remote
\* create_user.
C7_ConflictRejected ==
    [][ (clock' # clock /\ last'.op \in AccountPuts /\ Held(users, last'.arg, last'.id)) =>
            /\ ~last'.ok
            /\ users' = users
            /\ last'.tried = {}
            /\ fb_users' = fb_users ]_vars

\* C7 witness: save_user of the admin dashboard was refused for a held username
\* while the remote store was connected.
C7_Witness ==
    /\ last.op = "save_user" /\ ~last.ok
    /\ is_connected
    /\ Held(users, last.arg, last.id)

C9_EventuallySynced ==
    \A id \in Ids :
        <>[](/\ id \in DOMAIN articles
             /\ initialized /\ net = "up"
             /\ \E u \in UserIds : chains[u] > 0
             /\ last.arg # "raised")
        => <>Synced(id)

\* C10: every run of refresh_data schedules the next one: the number of
\* scheduled callbacks of a dashboard never decreases.
C10_ChainNeverStops == [][\A u \in UserIds : chains'[u] >= chains[u]]_vars

\* C10 witness: a run of refresh_data raised an exception, and the callback of
\* its dashboard is scheduled.
C10_Witness ==
    /\ last.op = "refresh_data" /\ last.arg = "raised"
    /\ chains[last.id] > 0

\* C11: a delete removes the local row whatever the remote delete does, and a
\* remote document is removed only by a delete request for its id: no other
\* operation (push run, edit, create) issues or repeats a remote delete.
C11_DeleteStandsNoRetry ==
    [][ /\ (clock' # clock /\ last'.op \in DeleteOps) =>
              last'.id \notin DOMAIN articles'
        /\ (DOMAIN fb_articles \ DOMAIN fb_articles' # {}) =>
              /\ clock' # clock
              /\ last'.op \in DeleteOps
              /\ last'.deletes > 0
              /\ DOMAIN fb_articles \ DOMAIN fb_articles' = {last'.id} ]_vars

\* C11 witness: after a delete whose remote delete failed or was skipped, a
\* later push run has run connected to the remote store, and the document of
\* the deleted id is still there with no local row.
C11_Witness ==
    /\ last.op \in PushOps /\ last.arg \in {"empty", "pushed"}
    /\ \E id \in Ids : id \notin DOMAIN articles /\ id \in DOMAIN fb_articles

\* C12: a delete requested in the dashboard makes exactly one remote delete
\* call when the remote store is connected, and none when it is not.
C12_OneRemoteDelete ==
    [][ (clock' # clock /\ last'.op = "delete_selected_article") =>
            last'.deletes = IF is_connected THEN 1 ELSE 0 ]_vars

C14_CachedIsDownloaded ==
    /\ \A P \in RemotePaths :
          cached_path(cache, P) # NoPath => cache[cached_path(cache, P)] = "complete"
    /\ \A P \in RemotePaths :
          (last.op = "download_image" /\ last.id = path_str(P)) =>
              cached_path(cache, P) = last.result

\* C15: get_cached_path performs no FTP call and changes neither the cache nor
\* the FTP client; it returns None exactly on a cache miss or an invalid path.
C15_PureLookup ==
    [][ \A P \in RemotePaths :
          get_cached_path(P) =>
            /\ cache' = cache
            /\ ftp_connected' = ftp_connected
            /\ last'.tried = {}
            /\ (last'.result = NoPath) <=>
                  (~valid_path(P) \/ get_cache_filename(P) \notin DOMAIN cache)
            /\ last'.result # NoPath => last'.result = get_cache_filename(P) ]_vars

\* C15 witness: get_cached_path has returned the path of a cached file.
C15_Witness ==
    /\ last.op = "get_cached_path" /\ last.ok
    /\ last.result \in DOMAIN cache

\* C16: download_image with force calls the FTP download even when the path is
\* cached; download_image returns None exactly when the path is invalid or the
\* FTP download it called failed, and the cache path otherwise.
C16_ForceAndResult ==
    [][ \A P \in RemotePaths, force \in BOOLEAN :
          download_image(P, force) =>
            /\ (force /\ valid_path(P)) => last'.tried = {path_str(P)}
            /\ (last'.result = NoPath) <=>
                  (~valid_path(P) \/ (last'.tried # {} /\ last'.written = {}))
            /\ last'.result # NoPath => last'.result = get_cache_filename(P) ]_vars

\* C16 witness: a forced download_image of a cached path has called the FTP
\* download, which failed, and has returned None.
C16_Witness ==
    /\ last.op = "download_image" /\ last.arg = "force"
    /\ last.tried # {} /\ last.written = {} /\ ~last.ok
    /\ \E P \in RemotePaths :
          /\ last.id = path_str(P)
          /\ get_cache_filename(P) \in DOMAIN cache
          /\ cache[get_cache_filename(P)] = "complete"

\* C17: a startup import that runs connected on an empty local store leaves
\* the local store listing exactly the Items of the remote store, each with
\* the id and name of its remote document and synced.
C17_StartupImports ==
    [][ (initial_firebase_sync /\ is_connected /\ articles = << >>) =>
            /\ DOMAIN articles' = DOMAIN fb_articles
            /\ IdsOf(get_all_articles(articles')) = DOMAIN fb_articles
            /\ \A id \in DOMAIN fb_articles :
                  /\ id \in DOMAIN articles'
                  /\ articles'[id].article_name = fb_articles[id].article_name
                  /\ articles'[id].sync_status = SYNC_SYNCED ]_vars

C19_ImagePathRemote ==
    \A id \in DOMAIN articles :
        articles[id].image_path \in {None} \cup UploadedPaths

\* C20: a periodic run leaves unchanged every local row whose remote write did
\* not succeed in that run (it failed, or the remote store was unreachable),
\* and removes or adds no row.
C20_FailedRowUntouched ==
    [][ \A u \in UserIds :
          refresh_held(u) =>
            /\ DOMAIN articles' = DOMAIN articles
            /\ \A id \in DOMAIN articles :
                  id \notin last'.written => articles'[id] = articles[id] ]_vars

FtpOpNames == {"connect", "upload_image", "ftp_download_image", "delete_image"}

\* C21: connect, upload_image, download_image and delete_image let no
\* exception reach their caller: whatever the configuration and the server
\* do, a failed operation comes back as False or None.
C21_NoExceptionEscapes ==
    last.op \in FtpOpNames =>
        /\ last.arg # "raised"
        /\ (~last.ok => last.arg \in {"False", None})

\* An upload of an existing file with the network down has come back as None.
C21_Witness ==
    /\ last.op = "upload_image"
    /\ last.id = "C:/pics/shoe.jpg"
    /\ last.arg = None
    /\ net = "down"

\* C22: is_connected() is true exactly when the client is initialized and the
\* network is reachable, and a method of FirebaseSync called while it is false
\* returns its negative or empty result, makes no call to the remote store and
\* leaves both remote collections as they are.
\* (Every step that changes neither the network nor the client is a call of one
\* of the methods.)
C22_DisconnectedIsInert ==
    [][ /\ is_connected <=> (initialized /\ net # "down")
        /\ (/\ net' = net /\ initialized' = initialized
            /\ ~(initialized /\ net # "down")) =>
              /\ fb_articles' = fb_articles
              /\ fb_users' = fb_users
              /\ ~last'.ok
              /\ last'.calls = {} /\ last'.tried = {} /\ last'.written = {} ]_vars

\* A document is stored remotely and a write was refused at the guard of the
\* method, the client initialized and the network down.
C22_Witness ==
    /\ initialized /\ net = "down"
    /\ fb_articles # << >>
    /\ last.op = "sync_articles"
    /\ ~last.ok /\ last.calls = {}

\* The accounts of the table: its rows without the two timestamps.
Accounts(tbl) ==
    {[id |-> r.id, username |-> r.username, password_hash |-> r.password_hash,
      role |-> r.role] : r \in tbl}

\* C23: a login with a username that a local Account has makes no call of the
\* remote authenticate_user and writes no account to the local users table
\* (the last_login of the Account apart).
C23_RemoteOnlyOnLocalMiss ==
    [][ (/\ clock' # clock /\ last'.op = "login"
         /\ get_user_by_username(users, last'.arg).id # None) =>
            /\ last'.calls = {}
            /\ Accounts(users') = Accounts(users) ]_vars

\* C24: update_article, delete_article and delete_user given an id that is not
\* stored return a failure and leave the local store as it is.
C24_MissingIdFails ==
    [][ (/\ clock' # clock
         /\ \/ /\ last'.op \in {"update_article", "delete_article"}
               /\ last'.id \notin DOMAIN articles
            \/ /\ last'.op = "delete_user"
               /\ \A r \in users : r.id # last'.id) =>
            /\ ~last'.ok
            /\ articles' = articles
            /\ users' = users ]_vars

\* C25: the number batch_sync_articles returns is the number of Items it wrote
\* to the remote store, those of the batches whose commit succeeded.
C25_BatchCountIsWritten ==
    last.op = "batch_sync_articles" => last.count = Cardinality(last.written)

\* C26: when the user has confirmed closing the main window, the local
\* database connection has been closed, the session of the remote document
\* client has been closed if there was one, and no FTP session is open.
C26_ShutdownClosesAll ==
    (last.op = "on_closing" /\ last.ok) =>
        /\ "db.close" \in last.calls
        /\ (initialized => "firebase.close" \in last.calls)
        /\ ~ftp_connected

\* C27: a sync_users or update_user call writes no password_hash: the
\* password_hash of every remote account document is what it was before the
\* call, and a document the call creates has none.
C27_MetadataWritesNoCredential ==
    [][ (/\ net' = net /\ initialized' = initialized
         /\ last'.op \in {"sync_users", "update_user"}) =>
            \A id \in DOMAIN fb_users' :
                fb_users'[id].password_hash =
                    IF id \in DOMAIN fb_users THEN fb_users[id].password_hash
                                              ELSE Absent ]_vars

\* The paths upload_image may return for the file of the event: the base
\* directory, "/", and the caller's file name or a generated name with the
\* suffix sfx.
UploadForms(sfx) ==
    { remote_dir \o "/" \o n.stem \o n.suffix : n \in {m \in RemoteNames : m.stem # None} }
    \cup { remote_dir \o "/" \o generated_stem \o sfx }

C29_UpsertIdempotent ==
    \A dicts \in DictLists :
        LET once == sync_articles_docs(fb_articles, dicts, {})
        IN  /\ sync_articles_docs(once, dicts, {}) = once
            /\ is_connected =>
                  \A k \in 1..Len(dicts) :
                      dicts[k].sync_status = SYNC_PENDING =>
                          /\ dicts[k].id \in DOMAIN once
                          /\ \A f \in DOMAIN article_data(dicts[k]) :
                                once[dicts[k].id][f] = article_data(dicts[k])[f]

\* A push has written A1 over a document that an update had changed, and the
\* remote store is still connected.
C29_Witness ==
    /\ is_connected
    /\ last.op = "sync_articles" /\ "A1" \in last.written
    /\ fb_articles["A1"].image_path # Absent

C31_PushOldestFirst ==
    last.op \in PushOps =>
        \A i, j \in 1..Len(last.order) :
            (i < j /\ last.order[i] \in DOMAIN articles
                   /\ last.order[j] \in DOMAIN articles) =>
                articles[last.order[i]].created_at
                    <= articles[last.order[j]].created_at

C33_FailedDownloadLeavesCache ==
    [][ \A P \in RemotePaths :
          (/\ net' = net
           /\ last'.op = "download_image" /\ last'.id = path_str(P)
           /\ last'.tried # {} /\ last'.written = {}) =>
             /\ get_cache_filename(P) \notin DOMAIN cache =>
                    cached_path(cache', P) = NoPath
             /\ get_cache_filename(P) \in DOMAIN cache =>
                    /\ get_cache_filename(P) \in DOMAIN cache'
                    /\ cache'[get_cache_filename(P)] = cache[get_cache_filename(P)] ]_vars

TransferOps == {"upload_image", "ftp_download_image", "delete_image"}

\* C34: after a transfer has failed with a transport error, the next
\* upload_image, download_image or delete_image call re-establishes the
\* session through connect() before it transfers: the flag connected is not
\* left true on the lost session.
\* (net' = net: the step is an operation, not a change of the network; an
\* upload of a file that does not exist returns before it uses the session.)
C34_ReconnectAfterError ==
    [][ (/\ net' = net
         /\ last.op \in TransferOps /\ last.lost
         /\ last'.op \in TransferOps
         /\ last'.id # "C:/pics/gone.jpg") =>
            "connect" \in last'.calls ]_vars

\* The refresh_data callbacks that are scheduled, over all dashboards.
PendingTimers == chains["u1"] + chains["u2"]

\* C35: at any time at most one periodic sync loop is scheduled: after any
\* sequence of login, logout and login again at most one refresh_data timer is
\* pending.
C35_OneSyncLoop == PendingTimers <= 1

ReconcileOps == PushOps \cup {"initial_firebase_sync"}

C37_CountsMatchLists ==
    /\ get_pending_articles_count(articles) = Len(get_pending_articles(articles))
    /\ get_articles_count(articles) = Len(get_all_articles(articles))
    /\ get_pending_articles_count(articles) <= get_articles_count(articles)

SameIdentity(new, old) ==
    /\ DOMAIN new = DOMAIN old
    /\ new.created_by = old.created_by
    /\ new.created_at = old.created_at

\* C39: update_article(id, ...) leaves the id, created_by and created_at of the
\* row and every other row unchanged; mark_article_synced(id) changes only the
\* sync_status of that row; create_or_update_user on an existing id leaves the
\* created_at and last_login of that Account unchanged.
C39_WritesKeepFrame ==
    [][ /\ (clock' # clock /\ last'.op = "update_article") =>
            /\ DOMAIN articles' = DOMAIN articles
            /\ \A i \in DOMAIN articles :
                  IF i = last'.id THEN SameIdentity(articles'[i], articles[i])
                  ELSE articles'[i] = articles[i]
        /\ last'.op = "mark_article_synced" =>
            /\ DOMAIN articles' = DOMAIN articles
            /\ \A i \in DOMAIN articles :
                  IF i = last'.id
                  THEN articles'[i] = [articles[i] EXCEPT !.sync_status = SYNC_SYNCED]
                  ELSE articles'[i] = articles[i]
        /\ (clock' # clock /\ last'.op = "create_or_update_user" /\ last'.ok) =>
            \A r \in users : r.id = last'.id =>
                \E q \in users' : /\ q.id = r.id
                                  /\ q.created_at = r.created_at
                                  /\ q.last_login = r.last_login ]_vars

\* C39 witness: create_or_update_user has written the row of an Account that
\* was stored before the call and has logged in.
C39_Witness ==
    /\ last.op = "create_or_update_user" /\ last.ok
    /\ \E r \in users : /\ r.id = last.id
                         /\ r.created_at < clock - 1
                         /\ r.last_login # Never
====
